---- MODULE Spec2Model ----
(***************************************************************************)
(* Model of the audio engine of ai_composer                                *)
(* (src/backend/services/audio_processing.py) and, at the end, of the      *)
(* services around it (generation_service.py, project_service.py).         *)
(*                                                                         *)
(* Sample values are exact rationals <<num, den>>.  The quantities the     *)
(* code truncates to a frame count (len/sample_rate, len*ratio,            *)
(* max_length*max_sample_rate) are IEEE-754 doubles, modelled bit for bit: *)
(* a double is [m |-> 53 mantissa bits, most significant first,            *)
(* e |-> exponent of the first bit], and 0.0 is [m |-> <<>>, e |-> 0].     *)
(***************************************************************************)
EXTENDS Integers, Sequences, FiniteSets, TLC

VARIABLES
    pc,           \* "idle" before the call, "done" after it
    op,           \* the operation under call: "mix_tracks", "normalize_audio", ...
    fs,           \* the filesystem: path -> file
    tracks,       \* mix_tracks: the track descriptors
    output_path,  \* mix_tracks: the sink path, or None
    audio_data,   \* the caller's buffer, for the operations that take one
    target_db,    \* normalize_audio: the target peak level
    args,         \* the other arguments of the call, by name
    result,       \* what the call returned or raised
    _instance,    \* the module's global: a reference to the service, or None
    callers,      \* get_audio_processing_service: each concurrent call
    constructed,  \* the AudioProcessingService objects, in order of construction
    active_generations,  \* GenerationService: generation_id -> entry
    generating,   \* generate_music: the locals of the call under way
    projects_cache,      \* ProjectService: project id -> project
    tracks_cache         \* ProjectService: track id -> track

\* the variables of a call of the audio engine
engine_vars ==
    <<pc, op, fs, tracks, output_path, audio_data, target_db, args, result>>

\* the state of the services around the engine
service_vars ==
    <<_instance, callers, constructed, active_generations, generating,
      projects_cache, tracks_cache>>

vars == <<engine_vars, service_vars>>

None == "None"

\* objects are named by the order of their construction, from 1 on: the
\* reference that names no object is Python's None
NoObject == 0

\* no service has been asked for, no generation started, no project stored
ServicesIdle ==
    /\ _instance = NoObject
    /\ callers = <<>>
    /\ constructed = <<>>
    /\ active_generations = <<>>
    /\ generating = None
    /\ projects_cache = <<>>
    /\ tracks_cache = <<>>

(***************************************************************************)
(* Bounds of the model.                                                    *)
(***************************************************************************)
MaxTracks == 2
MaxFrames == 2
MaxSample == 2

(***************************************************************************)
(* Exact rational arithmetic on samples.                                   *)
(***************************************************************************)
Abs(x) == IF x < 0 THEN -x ELSE x

RECURSIVE GCD(_, _)
GCD(a, b) == IF b = 0 THEN a ELSE GCD(b, a % b)

Rat(n, d) ==
    LET g == GCD(Abs(n), Abs(d))
        s == IF d < 0 THEN -1 ELSE 1
    IN  IF n = 0 THEN <<0, 1>> ELSE <<s * (n \div g), s * (d \div g)>>

RatZero == <<0, 1>>

RatMul(a, b) ==
    LET g1 == GCD(Abs(a[1]), b[2])
        g2 == GCD(Abs(b[1]), a[2])
    IN  IF a[1] = 0 \/ b[1] = 0 THEN RatZero
        ELSE <<(a[1] \div g1) * (b[1] \div g2), (a[2] \div g2) * (b[2] \div g1)>>

RatDiv(a, b) ==
    RatMul(a, IF b[1] < 0 THEN <<-b[2], -b[1]>> ELSE <<b[2], b[1]>>)

RatAdd(a, b) ==
    LET g == GCD(a[2], b[2])
    IN  Rat(a[1] * (b[2] \div g) + b[1] * (a[2] \div g), (a[2] \div g) * b[2])

RatSub(a, b) == RatAdd(a, <<-b[1], b[2]>>)

RatAbs(a) == <<Abs(a[1]), a[2]>>

RatLess(a, b) == a[1] * b[2] < b[1] * a[2]

RatMax(a, b) == IF RatLess(a, b) THEN b ELSE a

RatFloor(a) == a[1] \div a[2]

(***************************************************************************)
(* IEEE-754 double arithmetic, as far as the code uses it on lengths.      *)
(***************************************************************************)
MantissaBits == 53

FloatZero == [m |-> <<>>, e |-> 0]

RECURSIVE IncBits(_, _)
\* bits[1..i] plus one at position i; a leading 2 marks the carry out
IncBits(bits, i) ==
    IF i = 0 THEN <<2>> \o bits
    ELSE IF bits[i] = 0 THEN [bits EXCEPT ![i] = 1]
    ELSE IncBits([bits EXCEPT ![i] = 0], i - 1)

RECURSIVE AnyBit(_, _)
AnyBit(bits, i) ==
    IF i > Len(bits) THEN FALSE
    ELSE IF bits[i] = 1 THEN TRUE
    ELSE AnyBit(bits, i + 1)

\* round to nearest, ties to even, on MantissaBits bits
FloatRound(bits, e) ==
    IF Len(bits) <= MantissaBits
    THEN [m |-> bits \o [k \in 1..(MantissaBits - Len(bits)) |-> 0], e |-> e]
    ELSE
        LET head == SubSeq(bits, 1, MantissaBits)
            up == bits[MantissaBits + 1] = 1
                  /\ (AnyBit(bits, MantissaBits + 2) \/ head[MantissaBits] = 1)
            inc == IncBits(head, MantissaBits)
        IN  IF ~up THEN [m |-> head, e |-> e]
            ELSE IF inc[1] = 2
                 THEN [m |-> <<1>> \o [k \in 1..(MantissaBits - 1) |-> 0],
                       e |-> e + 1]
                 ELSE [m |-> inc, e |-> e]

RECURSIVE DivBits(_, _, _)
\* long division: MantissaBits + 1 quotient bits of rem/d, then a sticky bit
DivBits(rem, d, bits) ==
    IF Len(bits) = MantissaBits + 1
    THEN (IF rem > 0 THEN Append(bits, 1) ELSE bits)
    ELSE IF rem >= d THEN DivBits((rem - d) * 2, d, Append(bits, 1))
    ELSE DivBits(rem * 2, d, Append(bits, 0))

RECURSIVE DivAlign(_, _, _)
\* scale n and d by powers of two until 1 <= n/d < 2
DivAlign(n, d, e) ==
    IF n < d THEN DivAlign(n * 2, d, e - 1)
    ELSE IF n >= 2 * d THEN DivAlign(n, d * 2, e + 1)
    ELSE <<n, d, e>>

\* the double n / d of two positive Python ints
FloatDiv(n, d) ==
    IF n = 0 THEN FloatZero
    ELSE LET a == DivAlign(n, d, 0)
         IN  FloatRound(DivBits(a[1], a[2], <<>>), a[3])

RECURSIVE MulBits(_, _, _, _)
\* schoolbook product of the mantissa m by the int k, low bit first; then
\* the bits of the last carry
MulBits(m, k, carry, bits) ==
    IF Len(bits) < Len(m)
    THEN LET t == m[Len(m) - Len(bits)] * k + carry
         IN  MulBits(m, k, t \div 2, <<t % 2>> \o bits)
    ELSE IF carry > 0
    THEN MulBits(m, k, carry \div 2, <<carry % 2>> \o bits)
    ELSE bits

\* the double f * k of a double and a Python int
FloatMulInt(f, k) ==
    IF f.m = <<>> \/ k = 0 THEN FloatZero
    ELSE LET p == MulBits(f.m, k, 0, <<>>)
         IN  FloatRound(p, f.e + Len(p) - Len(f.m))

RECURSIVE DivIntBits(_, _, _, _, _, _)
\* long division of the mantissa m by the int k from bit i on: the quotient
\* from its first 1 on, MantissaBits + 1 bits and a sticky bit, and the
\* number of zeros before that 1
DivIntBits(m, k, i, rem, bits, lead) ==
    IF Len(bits) = MantissaBits + 1
    THEN <<(IF rem > 0 THEN Append(bits, 1) ELSE bits), lead>>
    ELSE
        LET r == rem * 2 + (IF i <= Len(m) THEN m[i] ELSE 0)
        IN  IF r >= k THEN DivIntBits(m, k, i + 1, r - k, Append(bits, 1), lead)
            ELSE IF bits = <<>> THEN DivIntBits(m, k, i + 1, r, bits, lead + 1)
            ELSE DivIntBits(m, k, i + 1, r, Append(bits, 0), lead)

\* the double f / k of a double and a positive Python int
FloatDivInt(f, k) ==
    IF f.m = <<>> THEN FloatZero
    ELSE LET q == DivIntBits(f.m, k, 1, 0, <<>>, 0)
         IN  FloatRound(q[1], f.e - q[2])

RECURSIVE IntOfBits(_, _, _, _)
\* the integer whose binary digits are m[i..n] after the digits of acc
IntOfBits(m, i, n, acc) ==
    IF i > n THEN acc
    ELSE IntOfBits(m, i + 1, n, 2 * acc + (IF i <= Len(m) THEN m[i] ELSE 0))

\* int(f): truncation toward zero of a non-negative double
FloatTrunc(f) ==
    IF f.m = <<>> \/ f.e < 0 THEN 0
    ELSE IntOfBits(f.m, 1, f.e + 1, 0)

RECURSIVE BitsLess(_, _, _)
BitsLess(a, b, i) ==
    IF i > Len(a) THEN FALSE
    ELSE IF a[i] # b[i] THEN a[i] < b[i]
    ELSE BitsLess(a, b, i + 1)

\* a < b on non-negative doubles
FloatLess(a, b) ==
    IF b.m = <<>> THEN FALSE
    ELSE IF a.m = <<>> THEN TRUE
    ELSE IF a.e # b.e THEN a.e < b.e
    ELSE BitsLess(a.m, b.m, 1)

\* Python's max(a, b): b when b > a, else a
FloatMax(a, b) == IF FloatLess(a, b) THEN b ELSE a

(***************************************************************************)
(* Buffers: a numpy array of shape (n,) is [ndim |-> 1, data |-> samples], *)
(* one of shape (n, c) is [ndim |-> 2, data |-> rows of c samples].        *)
(***************************************************************************)
\* (q \o <<>> is q, held as a tuple)
Buffer1(samples) == [ndim |-> 1, data |-> samples \o <<>>]

Buffer2(rows) == [ndim |-> 2, data |-> rows \o <<>>]

\* np.zeros((n, 2))
Zeros2(n) == Buffer2([j \in 1..n |-> <<RatZero, RatZero>>])

\* every sample of the buffer, as a set
Samples(b) ==
    IF b.ndim = 1 THEN {b.data[j] : j \in 1..Len(b.data)}
    ELSE UNION {{b.data[j][c] : c \in 1..Len(b.data[j])} : j \in 1..Len(b.data)}

\* array * scalar
Scale(b, g) ==
    IF b.ndim = 1 THEN Buffer1([j \in 1..Len(b.data) |-> RatMul(b.data[j], g)])
    ELSE Buffer2([j \in 1..Len(b.data) |->
                    [c \in 1..Len(b.data[j]) |-> RatMul(b.data[j][c], g)] \o <<>>])

(***************************************************************************)
(* Exceptions: what a call raises is a record of the exception's type and  *)
(* message; what it returns has no "exception" field.                      *)
(***************************************************************************)
Exc(type, message) == [exception |-> type, message |-> message]

IsExc(x) == "exception" \in DOMAIN x

\* nothing raised so far
NoExc == [raised |-> FALSE]

EmptyTracksError == Exc("ValueError", "No tracks provided for mixing")

NoValidTracksError == Exc("ValueError", "No valid tracks to mix")

\* the codec's error names the file it could not open
ReadError(file_path) == Exc("LibsndfileError", "Error opening " \o file_path)

ZeroSizeError ==
    Exc("ValueError", "zero-size array to reduction operation maximum")

EmptyInterpError == Exc("ValueError", "array of sample points is empty")

ZeroDivisionError == Exc("ZeroDivisionError", "division by zero")

\* np.zeros((new_length, num_channels)) of a negative new_length
NegativeDimensionsError ==
    Exc("ValueError", "negative dimensions are not allowed")

\* np.linspace(0, n - 1, new_length) of a negative new_length
NegativeSamplesError ==
    Exc("ValueError", "Number of samples must be non-negative")

(***************************************************************************)
(* The filesystem.  A path of the domain exists; a file that is no audio   *)
(* makes the codec raise.                                                  *)
(***************************************************************************)
CorruptFile == [kind |-> "corrupt"]

AudioFile(rate, buffer) ==
    [kind |-> "audio", sample_rate |-> rate, audio |-> buffer]

\* 15 frames of mono at 44100 Hz
FileA ==
    AudioFile(44100, Buffer1([j \in 1..15 |->
                                 IF j % 2 = 1 THEN <<1, 2>> ELSE <<-1, 4>>]))

\* 2 frames of stereo at 48000 Hz
FileB ==
    AudioFile(48000, Buffer2(<< <<(<<1, 2>>), (<<-1, 2>>)>>,
                                <<(<<1, 4>>), (<<1, 1>>)>> >>))

\* 3 frames of mono at 22050 Hz
FileC == AudioFile(22050, Buffer1(<< <<1, 1>>, <<-1, 2>>, <<1, 4>> >>))

InitialFS ==
    [p \in {"a.wav", "b.wav", "c.wav", "corrupt.wav"} |->
        CASE p = "a.wav" -> FileA
          [] p = "b.wav" -> FileB
          [] p = "c.wav" -> FileC
          [] OTHER -> CorruptFile]

\* sf.read(file_path) behind read_audio_file, which logs and re-raises
read_audio_file(files, file_path) ==
    IF file_path \in DOMAIN files /\ files[file_path].kind = "audio"
    THEN [data |-> files[file_path].audio,
          sample_rate |-> files[file_path].sample_rate]
    ELSE ReadError(file_path)

\* the codec's error names the file it could not create
WriteError(file_path) == Exc("LibsndfileError", "Error writing " \o file_path)

\* a path the codec cannot open for writing: a directory is in its place
Unwritable(files, file_path) ==
    file_path \in DOMAIN files /\ files[file_path].kind = "directory"

\* a faulty variant: the codec's error is logged and not raised again
write_audio_file_logging(files, buffer, file_path, sample_rate) ==
    IF Unwritable(files, file_path) THEN files
    ELSE [p \in DOMAIN files \cup {file_path} |->
             IF p = file_path THEN AudioFile(sample_rate, buffer) ELSE files[p]]

\* sf.write(file_path, audio_data, sample_rate): the filesystem after it,
\* or the codec's exception, logged and raised again
write_audio_file(files, buffer, file_path, sample_rate) ==
    IF Unwritable(files, file_path) THEN WriteError(file_path)
    ELSE [p \in DOMAIN files \cup {file_path} |->
             IF p = file_path THEN AudioFile(sample_rate, buffer) ELSE files[p]]

(***************************************************************************)
(* resample_audio: linear interpolation on a grid of new_length points.    *)
(***************************************************************************)
\* np.linspace(0, n - 1, new_length)[j], j counted from 0
Linspace(n, new_length, j) ==
    IF new_length = 1 THEN RatZero ELSE Rat(j * (n - 1), new_length - 1)

\* np.interp(x, np.arange(len(channel)), channel) for 0 <= x <= len - 1
Interp(channel, x) ==
    LET i == RatFloor(x)
    IN  IF i >= Len(channel) - 1 THEN channel[Len(channel)]
        ELSE RatAdd(channel[i + 1],
                    RatMul(RatSub(x, <<i, 1>>),
                           RatSub(channel[i + 2], channel[i + 1])))

\* int(len(audio_data) * ratio): the magnitude is that of the positive
\* operands, the sign that of the ratio, and int() truncates toward zero
ResampleLength(n, original_sample_rate, target_sample_rate) ==
    LET magnitude ==
            FloatTrunc(FloatMulInt(FloatDiv(Abs(target_sample_rate),
                                            Abs(original_sample_rate)), n))
    IN  IF (target_sample_rate < 0) # (original_sample_rate < 0)
        THEN -magnitude ELSE magnitude

\* a faulty variant: equal rates are resampled like any others
SameRateNever(original_sample_rate, target_sample_rate) == FALSE

SameRate(original_sample_rate, target_sample_rate) ==
    original_sample_rate = target_sample_rate

resample_audio(buffer, original_sample_rate, target_sample_rate) ==
    IF SameRate(original_sample_rate, target_sample_rate) THEN buffer
    ELSE IF original_sample_rate = 0 THEN ZeroDivisionError
    ELSE
        LET n == Len(buffer.data)
            new_length ==
                ResampleLength(n, original_sample_rate, target_sample_rate)
            channel(c) == [j \in 1..n |-> buffer.data[j][c]] \o <<>>
        IN  IF new_length < 0
            THEN (IF buffer.ndim > 1 THEN NegativeDimensionsError
                  ELSE NegativeSamplesError)
            ELSE IF n = 0 THEN EmptyInterpError
            ELSE IF buffer.ndim > 1
            THEN Buffer2([j \in 1..new_length |->
                    [c \in 1..Len(buffer.data[1]) |->
                        Interp(channel(c), Linspace(n, new_length, j - 1))]
                    \o <<>>])
            ELSE Buffer1([j \in 1..new_length |->
                    Interp(buffer.data, Linspace(n, new_length, j - 1))])

(***************************************************************************)
(* normalize_audio                                                         *)
(***************************************************************************)
DefaultTargetDb == -3

\* 10 ** (target_db / 20), to three decimals
DbToLinear(db) ==
    CASE db = -6 -> <<501, 1000>>
      [] db = -3 -> <<177, 250>>
      [] db = 0 -> <<1, 1>>
      [] db = 6 -> <<399, 200>>

RECURSIVE RatMaxOf(_)
RatMaxOf(S) ==
    LET x == CHOOSE y \in S : TRUE
    IN  IF S = {x} THEN x ELSE RatMax(x, RatMaxOf(S \ {x}))

\* np.max(np.abs(audio_data)) of a buffer that has samples
Peak(b) == RatMaxOf({RatAbs(x) : x \in Samples(b)})

\* a faulty variant: the gain is the target level, whatever the peak
NormalizeGainNoPeak(peak, db) == DbToLinear(db)

NormalizeGain(peak, db) == RatDiv(DbToLinear(db), peak)

normalize_audio(buffer, db) ==
    IF Samples(buffer) = {} THEN ZeroSizeError
    ELSE LET peak == Peak(buffer)
         IN  IF peak = RatZero THEN buffer
             ELSE Scale(buffer, NormalizeGain(peak, db))

(***************************************************************************)
(* mix_tracks                                                              *)
(***************************************************************************)
\* a faulty variant: the gain of the centre, whatever the pan
PanLeftCentre(percent) == <<707, 1000>>

\* np.cos((pan + 1) * np.pi / 4) for pan = percent / 100, to three decimals
PanLeft(percent) ==
    CASE percent = -100 -> <<1, 1>>
      [] percent = -50 -> <<231, 250>>
      [] percent = 0 -> <<707, 1000>>
      [] percent = 50 -> <<383, 1000>>
      [] percent = 100 -> RatZero

\* np.sin((pan + 1) * np.pi / 4)
PanRight(percent) == PanLeft(-percent)

\* a faulty variant: solo overrides mute
MutedUnlessSolo(track) == track.muted /\ ~track.solo

\* the first-pass tests that let a track through to the read
Muted(track) == track.muted

FileMissing(files, track) ==
    track.file_path = None \/ track.file_path \notin DOMAIN files

TrackData(track, read, index) ==
    [audio |-> read.data,
     sample_rate |-> read.sample_rate,
     volume |-> Rat(track.volume, 100),
     pan |-> track.pan,
     solo |-> track.solo,
     index |-> index]

IntMax(a, b) == IF a < b THEN b ELSE a

RECURSIVE FirstPass(_, _, _, _)
\* the loop over tracks from position i on; st is the loop's state so far
FirstPass(files, trks, i, st) ==
    IF i > Len(trks) THEN st
    ELSE IF Muted(trks[i]) THEN FirstPass(files, trks, i + 1, st)
    ELSE IF FileMissing(files, trks[i]) THEN FirstPass(files, trks, i + 1, st)
    ELSE
        LET read == read_audio_file(files, trks[i].file_path)
            reads == Append(st.reads, trks[i].file_path)
        IN  IF IsExc(read) THEN [st EXCEPT !.raised = read, !.reads = reads]
            ELSE FirstPass(files, trks, i + 1,
                    [track_audio_data |->
                         Append(st.track_audio_data, TrackData(trks[i], read, i)),
                     max_sample_rate |->
                         IntMax(st.max_sample_rate, read.sample_rate),
                     max_length |->
                         FloatMax(st.max_length,
                                  FloatDiv(Len(read.data.data), read.sample_rate)),
                     reads |-> reads,
                     raised |-> NoExc])

SoloActive(track_audio_data) ==
    \E k \in 1..Len(track_audio_data) : track_audio_data[k].solo

\* the second-pass test that skips a track
SoloSkips(solo_active, track_data) == solo_active /\ ~track_data.solo

OutputLength(max_length, max_sample_rate) ==
    FloatTrunc(FloatMulInt(max_length, max_sample_rate))

\* np.column_stack((audio, audio)) of a mono buffer
ToStereo(b) ==
    IF b.ndim = 1
    THEN Buffer2([j \in 1..Len(b.data) |-> <<b.data[j], b.data[j]>>])
    ELSE b

ApplyPan(b, percent) ==
    IF percent # 0
    THEN Buffer2([j \in 1..Len(b.data) |->
                    <<RatMul(b.data[j][1], PanLeft(percent)),
                      RatMul(b.data[j][2], PanRight(percent))>>])
    ELSE b

\* zero padding at the end, or truncation, to output_length frames
FitLength(b, output_length) ==
    Buffer2([j \in 1..output_length |->
                IF j <= Len(b.data) THEN b.data[j] ELSE <<RatZero, RatZero>>])

\* mixed_audio += audio
AddInto(mixed, b) ==
    Buffer2([j \in 1..Len(mixed.data) |->
                <<RatAdd(mixed.data[j][1], b.data[j][1]),
                  RatAdd(mixed.data[j][2], b.data[j][2])>>])

\* the track's buffer at the output rate, before pan, volume and padding
Resampled(track_data, max_sample_rate) ==
    IF track_data.sample_rate # max_sample_rate
    THEN resample_audio(track_data.audio, track_data.sample_rate, max_sample_rate)
    ELSE track_data.audio

RECURSIVE SecondPass(_, _, _, _, _, _)
SecondPass(tad, k, solo_active, max_sample_rate, output_length, st) ==
    IF k > Len(tad) THEN st
    ELSE IF SoloSkips(solo_active, tad[k])
    THEN SecondPass(tad, k + 1, solo_active, max_sample_rate, output_length, st)
    ELSE
        LET audio == Resampled(tad[k], max_sample_rate)
        IN  IF IsExc(audio) THEN [st EXCEPT !.raised = audio]
            ELSE SecondPass(tad, k + 1, solo_active, max_sample_rate, output_length,
                    [mixed_audio |->
                         AddInto(st.mixed_audio,
                             FitLength(Scale(ApplyPan(ToStereo(audio), tad[k].pan),
                                             tad[k].volume),
                                       output_length)),
                     summed |-> Append(st.summed, tad[k].index),
                     raised |-> NoExc])

\* a faulty variant: the test for an empty list is left out
EmptyCheckNever(trks) == FALSE

EmptyCheck(trks) == trks = <<>>

\* the call's outcome: what it returns or raises (value), the filesystem
\* after it (files), the paths it read, in order (reads), the positions
\* in tracks of the tracks it added into the mix, in order (summed), and
\* its calls of write_audio_file, in order (writes)
mix_tracks(files, trks, out_path) ==
    LET raise(e, reads) ==
            [value |-> e, files |-> files, reads |-> reads, summed |-> <<>>,
             writes |-> <<>>]
        \* lines 286-289: the write of the sink, if any, and the return
        sink(first, second, normalized, written) ==
            LET writes == <<[audio_data |-> normalized, file_path |-> out_path,
                             sample_rate |-> first.max_sample_rate]>>
                returned(files_after, calls) ==
                    [value |-> [mixed_audio |-> normalized,
                                sample_rate |-> first.max_sample_rate],
                     files |-> files_after,
                     reads |-> first.reads,
                     summed |-> second.summed,
                     writes |-> calls]
            IN  IF out_path = None THEN returned(files, <<>>)
                ELSE IF IsExc(written)
                THEN [raise(written, first.reads) EXCEPT !.writes = writes]
                ELSE returned(written, writes)
        \* line 283: the normalization of the sum
        normalize(first, second, normalized) ==
            IF IsExc(normalized) THEN raise(normalized, first.reads)
            ELSE sink(first, second, normalized,
                      write_audio_file(files, normalized, out_path,
                                       first.max_sample_rate))
        \* lines 236-281: the second pass
        sum(first, second) ==
            IF IsExc(second.raised) THEN raise(second.raised, first.reads)
            ELSE normalize(first, second,
                           normalize_audio(second.mixed_audio, DefaultTargetDb))
        mix(first, output_length) ==
            sum(first,
                SecondPass(first.track_audio_data, 1,
                           SoloActive(first.track_audio_data),
                           first.max_sample_rate, output_length,
                           [mixed_audio |-> Zeros2(output_length),
                            summed |-> <<>>, raised |-> NoExc]))
        \* lines 199-231: the first pass and the length of the output
        read(first) ==
            IF IsExc(first.raised) THEN raise(first.raised, first.reads)
            ELSE IF first.track_audio_data = <<>>
            THEN raise(NoValidTracksError, first.reads)
            ELSE mix(first,
                     OutputLength(first.max_length, first.max_sample_rate))
    IN  IF EmptyCheck(trks) THEN raise(EmptyTracksError, <<>>)
        ELSE read(FirstPass(files, trks, 1,
                      [track_audio_data |-> <<>>, max_sample_rate |-> 0,
                       max_length |-> FloatZero, reads |-> <<>>,
                       raised |-> NoExc]))

(***************************************************************************)
(* The calls.                                                              *)
(***************************************************************************)
Paths == {None, "missing.wav", "corrupt.wav", "a.wav", "b.wav", "c.wav"}

Volumes == {100}

Pans == {0}

OutputPaths == {None, "out.wav"}

TrackDescriptors ==
    [file_path : Paths, muted : BOOLEAN, solo : BOOLEAN,
     volume : Volumes, pan : Pans]

RECURSIVE Lists(_, _)
\* the sequences over S of length at most n
Lists(S, n) ==
    IF n = 0 THEN {<<>>}
    ELSE LET shorter == Lists(S, n - 1)
         IN  shorter \cup {Append(l, x) : l \in shorter, x \in S}

Init ==
    /\ pc = "idle"
    /\ op = "mix_tracks"
    /\ fs = InitialFS
    /\ tracks \in Lists(TrackDescriptors, MaxTracks)
    /\ output_path \in OutputPaths
    /\ audio_data = None
    /\ target_db = None
    /\ args = None
    /\ result = None
    /\ ServicesIdle

\* three unmuted tracks over readable files, exactly one of them soloed
SoloTriples ==
    {l \in [1..3 -> [file_path : {"a.wav", "b.wav", "c.wav"}, muted : {FALSE},
                     solo : BOOLEAN, volume : Volumes, pan : Pans]] :
        Cardinality({i \in 1..3 : l[i].solo}) = 1}

InitSolo ==
    /\ pc = "idle"
    /\ op = "mix_tracks"
    /\ fs = InitialFS
    /\ tracks \in SoloTriples
    /\ output_path \in OutputPaths
    /\ audio_data = None
    /\ target_db = None
    /\ args = None
    /\ result = None
    /\ ServicesIdle

SampleValues == {Rat(k, 2) : k \in -MaxSample..MaxSample}

\* the mono and the stereo buffers of at most MaxFrames frames
Buffers ==
    {Buffer1(d) : d \in Lists(SampleValues, MaxFrames)}
    \cup {Buffer2(d) : d \in Lists(SampleValues \X SampleValues, MaxFrames)}

\* the target_db argument: <<>> when the caller leaves it out
TargetDbs == {<<>>} \cup {<<db>> : db \in {-6, 0, 6}}

InitNormalize ==
    /\ pc = "idle"
    /\ op = "normalize_audio"
    /\ fs = InitialFS
    /\ tracks = <<>>
    /\ output_path = None
    /\ audio_data \in Buffers
    /\ target_db \in TargetDbs
    /\ args = None
    /\ result = None
    /\ ServicesIdle

MixTracksCall ==
    /\ pc = "idle"
    /\ op = "mix_tracks"
    /\ LET outcome == mix_tracks(fs, tracks, output_path)
       IN  /\ result' = [value |-> outcome.value, reads |-> outcome.reads,
                         summed |-> outcome.summed, writes |-> outcome.writes]
           /\ fs' = outcome.files
    /\ pc' = "done"
    /\ UNCHANGED <<op, tracks, output_path, audio_data, target_db, args,
                   service_vars>>

\* the target level of the call: the default when the caller gives none
TargetDbArg(db) == IF db = <<>> THEN DefaultTargetDb ELSE db[1]

NormalizeAudioCall ==
    /\ pc = "idle"
    /\ op = "normalize_audio"
    /\ result' = [value |-> normalize_audio(audio_data, TargetDbArg(target_db)),
                   audio_data |-> audio_data]
    /\ pc' = "done"
    /\ UNCHANGED <<op, fs, tracks, output_path, audio_data, target_db, args,
                   service_vars>>

Next == MixTracksCall

Spec == Init /\ [][Next]_vars

SpecSolo == InitSolo /\ [][Next]_vars

NextNormalize == NormalizeAudioCall

SpecNormalize == InitNormalize /\ [][NextNormalize]_vars

(***************************************************************************)
(* Properties of mix_tracks.                                               *)
(***************************************************************************)
Done == pc = "done"

Returned == Done /\ ~IsExc(result.value)

Raised == Done /\ IsExc(result.value)

Readable(track) ==
    /\ track.file_path \in DOMAIN InitialFS
    /\ InitialFS[track.file_path].kind = "audio"

\* the tracks at the positions idx, in that order
TracksAt(idx) == [k \in 1..Len(idx) |-> tracks[idx[k]]]

SeqSet(q) == {q[k] : k \in 1..Len(q)}

\* C1: with three unmuted, readable tracks of which exactly one is soloed,
\* mix_tracks returns the buffer and the sample rate that mix_tracks returns
\* for the soloed track alone.
C1_SoloEqualsAlone ==
    (/\ Done
     /\ Len(tracks) = 3
     /\ \A i \in 1..3 : ~tracks[i].muted /\ Readable(tracks[i])
     /\ Cardinality({i \in 1..3 : tracks[i].solo}) = 1)
    => LET k == CHOOSE i \in 1..3 : tracks[i].solo
       IN  result.value = mix_tracks(InitialFS, <<tracks[k]>>, None).value

\* C2: the returned sample rate and number of frames are those of the mix
\* of the contributing tracks alone: a track left out by the mute,
\* readability or solo filter influences neither.
C2_OutputFromContributorsOnly ==
    Returned
    => LET alone == mix_tracks(InitialFS, TracksAt(result.summed), None).value
       IN  /\ result.value.sample_rate = alone.sample_rate
           /\ Len(result.value.mixed_audio.data) = Len(alone.mixed_audio.data)

\* the positions the claim says are summed: unmuted with an existing file,
\* restricted to the soloed ones when one of them is soloed
ExpectedSummed ==
    LET surviving == {i \in 1..Len(tracks) :
                         /\ ~tracks[i].muted
                         /\ tracks[i].file_path \in DOMAIN InitialFS}
    IN  IF \E i \in surviving : tracks[i].solo
        THEN {i \in surviving : tracks[i].solo}
        ELSE surviving

\* C3: the tracks summed are the unmuted tracks whose file exists,
\* restricted to the soloed ones when at least one of them is soloed, each
\* once and in the order supplied; a muted track never contributes and its
\* solo flag never restricts the others.
C3_SummedSet ==
    Done =>
        /\ Returned => SeqSet(result.summed) = ExpectedSummed
        /\ \A k \in 1..Len(result.summed) :
               /\ ~tracks[result.summed[k]].muted
               /\ k > 1 => result.summed[k - 1] < result.summed[k]
        /\ Raised => result.summed = <<>>

\* a mix returned in which a muted, soloed track stood beside an unmuted,
\* unsoloed one, and the latter was summed
C3_Witness ==
    /\ Returned
    /\ \E i, j \in 1..Len(tracks) :
          /\ tracks[i].muted /\ tracks[i].solo /\ Readable(tracks[i])
          /\ ~tracks[j].solo /\ j \in SeqSet(result.summed)

\* the track's backing audio is missing or unreadable
BadAudio(track) == ~Readable(track)

\* C4: a track whose backing audio is missing or unreadable is skipped:
\* when another, unmuted track is readable, mix_tracks returns a result.
C4_BadTrackSkipped ==
    (/\ Done
     /\ \E i, j \in 1..Len(tracks) :
           /\ i # j
           /\ BadAudio(tracks[i])
           /\ ~tracks[j].muted /\ Readable(tracks[j]))
    => Returned

\* C5: when every track of a non-empty list is muted, missing or
\* unreadable, mix_tracks raises the no-valid-tracks error, returns no
\* buffer and writes nothing.
C5_AllBadRaisesNoValidTracks ==
    (/\ Done
     /\ tracks # <<>>
     /\ \A i \in 1..Len(tracks) : tracks[i].muted \/ BadAudio(tracks[i]))
    => /\ result.value = NoValidTracksError
       /\ fs = InitialFS

FramesAtRate(track, rate) ==
    LET file == InitialFS[track.file_path]
    IN  IF file.sample_rate = rate THEN Len(file.audio.data)
        ELSE ResampleLength(Len(file.audio.data), file.sample_rate, rate)

\* C7: the returned buffer is stereo and has at least as many frames as
\* every contributing track has at the output rate.
C7_NoContributorTruncated ==
    Returned =>
        LET mixed == result.value.mixed_audio
        IN  /\ mixed.ndim = 2
            /\ \A j \in 1..Len(mixed.data) : Len(mixed.data[j]) = 2
            /\ \A i \in SeqSet(result.summed) :
                   Len(mixed.data) >= FramesAtRate(tracks[i], result.value.sample_rate)

\* the nearest integer to the non-negative rational x, ties to the even one
RoundRat(x) ==
    LET f == x[1] \div x[2]
        r == x[1] - f * x[2]
    IN  IF 2 * r < x[2] THEN f
        ELSE IF 2 * r > x[2] THEN f + 1
        ELSE IF f % 2 = 0 THEN f ELSE f + 1

\* frames divided by own sample rate
Duration(track) ==
    Rat(Len(InitialFS[track.file_path].audio.data),
        InitialFS[track.file_path].sample_rate)

\* C8: the returned buffer has round(D * output_rate) frames, D the largest
\* duration in seconds among the contributing tracks.
C8_RoundedLength ==
    Returned =>
        LET D == RatMaxOf({Duration(tracks[i]) : i \in SeqSet(result.summed)})
        IN  Len(result.value.mixed_audio.data)
              = RoundRat(RatMul(D, <<result.value.sample_rate, 1>>))

(***************************************************************************)
(* Properties of normalize_audio.                                          *)
(***************************************************************************)
Silent(b) == \A x \in Samples(b) : x = RatZero

\* C9: normalize_audio of a buffer whose samples are all zero returns that
\* buffer unchanged and does not raise, for every target_db.
C9_SilenceUnchanged ==
    (Done /\ op = "normalize_audio" /\ Silent(audio_data))
    => result.value = audio_data

\* beside C9: what the code does do on silence that has frames
NonEmptySilenceUnchanged ==
    (Done /\ op = "normalize_audio" /\ Silent(audio_data)
          /\ Samples(audio_data) # {})
    => result.value = audio_data

\* y = x * target / peak, stated without a division
ScaledBy(y, x, target, peak) == RatMul(y, peak) = RatMul(x, target)

\* C10: of a buffer with a non-zero sample, normalize_audio returns the
\* buffer of the same shape whose every sample is the input's times
\* target/peak, target being 10^(target_db/20) and -3 dB when target_db is
\* left out; the absolute peak of the result is target.
C10_UniformGainToTarget ==
    (Done /\ op = "normalize_audio" /\ ~Silent(audio_data))
    => LET target == DbToLinear(IF target_db = <<>> THEN -3 ELSE target_db[1])
           peak == Peak(audio_data)
           out == result.value
       IN  /\ ~IsExc(out)
           /\ out.ndim = audio_data.ndim
           /\ Len(out.data) = Len(audio_data.data)
           /\ \A j \in 1..Len(out.data) :
                  IF out.ndim = 1
                  THEN ScaledBy(out.data[j], audio_data.data[j], target, peak)
                  ELSE /\ Len(out.data[j]) = 2
                       /\ \A c \in 1..2 :
                              ScaledBy(out.data[j][c], audio_data.data[j][c],
                                       target, peak)
           /\ Peak(out) = target
           /\ ~RatLess(target, Peak(out))

\* a stereo buffer whose channels peak at different levels, the larger one
\* negative, was normalized to +6 dB
C10_Witness ==
    /\ Done /\ op = "normalize_audio"
    /\ target_db = <<6>>
    /\ audio_data = Buffer2(<< <<(<<1, 2>>), (<<-1, 1>>)>>,
                               <<(<<0, 1>>), (<<1, 2>>)>> >>)
    /\ ~IsExc(result.value)

(***************************************************************************)
(* Pairs of tracks of equal volume, pan 0 and no solo.                     *)
(***************************************************************************)
\* b.wav with every sample negated
FileBInv == AudioFile(FileB.sample_rate, Scale(FileB.audio, <<-1, 1>>))

PairFS ==
    [p \in DOMAIN InitialFS \cup {"b_inv.wav"} |->
        IF p = "b_inv.wav" THEN FileBInv ELSE InitialFS[p]]

PairTracks ==
    {<<[file_path |-> p, muted |-> FALSE, solo |-> FALSE, volume |-> v, pan |-> 0],
       [file_path |-> q, muted |-> FALSE, solo |-> FALSE, volume |-> v, pan |-> 0]>> :
        p \in {"a.wav", "b.wav", "c.wav", "b_inv.wav"},
        q \in {"a.wav", "b.wav", "c.wav", "b_inv.wav"},
        v \in {50, 100}}

InitPair ==
    /\ pc = "idle"
    /\ op = "mix_tracks"
    /\ fs = PairFS
    /\ tracks \in PairTracks
    /\ output_path \in OutputPaths
    /\ audio_data = None
    /\ target_db = None
    /\ args = None
    /\ result = None
    /\ ServicesIdle

SpecPair == InitPair /\ [][Next]_vars

\* two unmuted, unsoloed tracks of equal volume and pan 0 over audio files
IsPair ==
    /\ op = "mix_tracks"
    /\ Len(tracks) = 2
    /\ \A i \in 1..2 :
          /\ ~tracks[i].muted /\ ~tracks[i].solo /\ tracks[i].pan = 0
          /\ tracks[i].file_path \in DOMAIN PairFS
          /\ PairFS[tracks[i].file_path].kind = "audio"
    /\ tracks[1].volume = tracks[2].volume

\* the elementwise sum of the two tracks' buffers, each resampled to the
\* larger rate, made stereo, scaled by the volume and zero-padded to the
\* longer of the two
PairSum ==
    LET file(i) == PairFS[tracks[i].file_path]
        rate == IntMax(file(1).sample_rate, file(2).sample_rate)
        part(i) == Scale(ToStereo(resample_audio(file(i).audio,
                                                 file(i).sample_rate, rate)),
                         Rat(tracks[i].volume, 100))
        length == IntMax(Len(part(1).data), Len(part(2).data))
    IN  AddInto(FitLength(part(1), length), FitLength(part(2), length))

\* C11: of two tracks of equal volume, pan 0 and no solo, mix_tracks returns
\* the normalized elementwise sum of their resampled, padded buffers, and
\* the absolute peak of what it returns is the -3 dB target, also when the
\* two tracks cancel each other partly or fully.
C11_PairIsNormalizedSum ==
    (Done /\ IsPair)
    => /\ Returned
       /\ LET sum == PairSum
              out == result.value.mixed_audio
              target == DbToLinear(-3)
          IN  /\ Len(out.data) = Len(sum.data)
              /\ \A j \in 1..Len(out.data) : \A c \in 1..2 :
                     /\ j <= Len(sum.data)
                     /\ ScaledBy(out.data[j][c], sum.data[j][c], target, Peak(sum))
              /\ Peak(out) = target

(***************************************************************************)
(* Calls of resample_audio.                                                *)
(***************************************************************************)
\* mono and stereo buffers of at most MaxFrames + 1 frames
FewBuffers ==
    LET samples == {<<-1, 2>>, <<0, 1>>, <<1, 1>>}
        rows == {<<x, y>> : x \in {<<0, 1>>, <<1, 1>>},
                            y \in {<<-1, 2>>, <<1, 4>>}}
    IN  {Buffer1(d) : d \in Lists(samples, MaxFrames + 1)}
        \cup {Buffer2(d) : d \in Lists(rows, MaxFrames + 1)}

SampleRates == {-44100, -22050, 0, 22050, 44100, 48000}

InitResample ==
    /\ pc = "idle"
    /\ op = "resample_audio"
    /\ fs = InitialFS
    /\ tracks = <<>>
    /\ output_path = None
    /\ audio_data \in FewBuffers
    /\ target_db = None
    /\ args \in [original_sample_rate : SampleRates,
                 target_sample_rate : SampleRates]
    /\ result = None
    /\ ServicesIdle

ResampleAudioCall ==
    /\ pc = "idle"
    /\ op = "resample_audio"
    /\ result' = [value |-> resample_audio(audio_data, args.original_sample_rate,
                                           args.target_sample_rate),
                   audio_data |-> audio_data]
    /\ pc' = "done"
    /\ UNCHANGED <<op, fs, tracks, output_path, audio_data, target_db, args,
                   service_vars>>

NextResample == ResampleAudioCall

SpecResample == InitResample /\ [][NextResample]_vars

ResampleDone == Done /\ op = "resample_audio"

\* C12: resample_audio(b, r, r) returns b exactly, with the same length,
\* channel count and samples, for every mono or stereo buffer b of any
\* length, zero included, and every rate r.
C12_ResampleIdentity ==
    (ResampleDone /\ args.original_sample_rate = args.target_sample_rate)
    => result.value = audio_data

\* a stereo buffer of no frames was resampled from a rate to the same rate
C12_Witness ==
    /\ ResampleDone
    /\ args.original_sample_rate = 48000 /\ args.target_sample_rate = 48000
    /\ audio_data = Buffer2(<<>>)
    /\ result.value = audio_data

\* C13: for from_rate # to_rate, both positive, resample_audio returns a
\* buffer of exactly round(old_length * to_rate / from_rate) frames with
\* the channels of the input.
C13_ResampleRoundedLength ==
    (/\ ResampleDone
     /\ args.original_sample_rate # args.target_sample_rate
     /\ args.original_sample_rate > 0 /\ args.target_sample_rate > 0)
    => /\ ~IsExc(result.value)
       /\ result.value.ndim = audio_data.ndim
       /\ Len(result.value.data)
            = RoundRat(Rat(Len(audio_data.data) * args.target_sample_rate,
                           args.original_sample_rate))
       /\ audio_data.ndim = 2 =>
              \A j \in 1..Len(result.value.data) : Len(result.value.data[j]) = 2

\* C14: resample_audio raises, and returns no buffer, whenever from_rate or
\* to_rate is zero or negative, also when the two are equal.
C14_NonPositiveRateRaises ==
    (ResampleDone
     /\ (args.original_sample_rate <= 0 \/ args.target_sample_rate <= 0))
    => IsExc(result.value)

(***************************************************************************)
(* apply_fade.  The arrays of a call are named: "audio_data" is the array  *)
(* the caller passed, "result" the one a copy() makes; an in-place         *)
(* operation changes the array its left-hand side names.                   *)
(***************************************************************************)
\* a faulty variant: no copy is made, the name stands for the same array
ArrayAlias(name) == name

\* audio_data.copy(): a new array
ArrayCopy(name) == "result"

\* a duration in seconds is the double nearest to the fraction <<n, d>>;
\* int(duration * sample_rate)
DurationSamples(duration, sample_rate) ==
    FloatTrunc(FloatMulInt(FloatDiv(duration[1], duration[2]), sample_rate))

\* np.linspace(start, stop, num) for start, stop in {0, 1}
FadeCurve(start, stop, num) ==
    [j \in 1..num |->
        IF num = 1 THEN <<start, 1>>
        ELSE Rat(start * (num - 1) + (j - 1) * (stop - start), num - 1)] \o <<>>

\* a slice of min(k, n) frames takes a curve of k values when the lengths
\* agree or the curve has one value
Broadcasts(n, k) == k <= n \/ k = 1

BroadcastError == Exc("ValueError", "operands could not be broadcast together")

\* b[first : first + len(curve)] *= curve, on every channel
MulSlice(b, first, curve) ==
    LET inside(j) == first < j /\ j <= first + Len(curve)
    IN  IF b.ndim = 1
        THEN Buffer1([j \in 1..Len(b.data) |->
                 IF inside(j) THEN RatMul(b.data[j], curve[j - first])
                 ELSE b.data[j]])
        ELSE Buffer2([j \in 1..Len(b.data) |->
                 IF inside(j)
                 THEN [c \in 1..Len(b.data[j]) |->
                          RatMul(b.data[j][c], curve[j - first])] \o <<>>
                 ELSE b.data[j]])

\* a faulty variant: the fade-out is applied from the first frame on
FadeOutStartZero(n, fade_out_samples) == 0

\* the frames before the slice [-fade_out_samples:] of n frames
FadeOutStart(n, fade_out_samples) == n - fade_out_samples

\* value: what the call returns or raises; audio_data: the caller's array
\* after the call
apply_fade(buffer, fade_in_duration, fade_out_duration, sample_rate) ==
    LET fade_in_samples == DurationSamples(fade_in_duration, sample_rate)
        fade_out_samples == DurationSamples(fade_out_duration, sample_rate)
        n == Len(buffer.data)
        res == ArrayCopy("audio_data")
        arrays0 == [audio_data |-> buffer, result |-> buffer]
        in_raises == fade_in_samples > 0 /\ ~Broadcasts(n, fade_in_samples)
        arrays1 ==
            IF fade_in_samples > 0 /\ ~in_raises
            THEN [arrays0 EXCEPT
                     ![res] = MulSlice(arrays0[res], 0,
                                       FadeCurve(0, 1, fade_in_samples))]
            ELSE arrays0
        out_raises == fade_out_samples > 0 /\ ~Broadcasts(n, fade_out_samples)
        arrays2 ==
            IF fade_out_samples > 0 /\ ~out_raises
            THEN [arrays1 EXCEPT
                     ![res] = MulSlice(arrays1[res], FadeOutStart(n, fade_out_samples),
                                       FadeCurve(1, 0, fade_out_samples))]
            ELSE arrays1
    IN  IF in_raises
        THEN [value |-> BroadcastError, audio_data |-> arrays0.audio_data]
        ELSE IF out_raises
        THEN [value |-> BroadcastError, audio_data |-> arrays1.audio_data]
        ELSE [value |-> arrays2[res], audio_data |-> arrays2.audio_data]

\* mono and stereo buffers of at most MaxFrames + 3 frames
FadeBuffers ==
    LET samples == {<<1, 1>>, <<-1, 2>>}
        rows == {<<(<<1, 1>>), (<<-1, 2>>)>>, <<(<<1, 4>>), (<<1, 1>>)>>}
    IN  {Buffer1(d) : d \in Lists(samples, MaxFrames + 3)}
        \cup {Buffer2(d) : d \in Lists(rows, MaxFrames + 3)}

\* 0, 0.1, 0.2, 0.3 and 0.5 seconds
FadeDurations == {<<0, 1>>, <<1, 10>>, <<1, 5>>, <<3, 10>>, <<1, 2>>}

FadeSampleRates == {10}

InitFade ==
    /\ pc = "idle"
    /\ op = "apply_fade"
    /\ fs = InitialFS
    /\ tracks = <<>>
    /\ output_path = None
    /\ audio_data \in FadeBuffers
    /\ target_db = None
    /\ args \in [fade_in_duration : FadeDurations,
                 fade_out_duration : FadeDurations,
                 sample_rate : FadeSampleRates]
    /\ result = None
    /\ ServicesIdle

ApplyFadeCall ==
    /\ pc = "idle"
    /\ op = "apply_fade"
    /\ result' = apply_fade(audio_data, args.fade_in_duration,
                            args.fade_out_duration, args.sample_rate)
    /\ pc' = "done"
    /\ UNCHANGED <<op, fs, tracks, output_path, audio_data, target_db, args,
                   service_vars>>

NextFade == ApplyFadeCall

SpecFade == InitFade /\ [][NextFade]_vars

(***************************************************************************)
(* Properties of apply_fade.                                               *)
(***************************************************************************)
FadeDone == Done /\ op = "apply_fade"

FadeInLength == DurationSamples(args.fade_in_duration, args.sample_rate)

FadeOutLength == DurationSamples(args.fade_out_duration, args.sample_rate)

\* frame j of buffer b
Frame(b, j) == b.data[j]

\* frame j of buffer b with every channel multiplied by g
FrameTimes(b, j, g) ==
    IF b.ndim = 1 THEN RatMul(b.data[j], g)
    ELSE [c \in 1..Len(b.data[j]) |-> RatMul(b.data[j][c], g)] \o <<>>

\* C15: a fade-in or fade-out longer in samples than the buffer is clamped
\* to the buffer: apply_fade returns a buffer of the input's length and
\* does not raise; a fade of zero length leaves its edge of the buffer
\* unchanged.
C15_LongFadeClamped ==
    FadeDone =>
        LET n == Len(audio_data.data)
            out == result.value
        IN  /\ (FadeInLength > n \/ FadeOutLength > n)
                  => /\ ~IsExc(out)
                     /\ out.ndim = audio_data.ndim
                     /\ Len(out.data) = n
            /\ (FadeInLength = 0 /\ ~IsExc(out))
                  => \A j \in 1..(n - FadeOutLength) :
                         Frame(out, j) = Frame(audio_data, j)
            /\ (FadeOutLength = 0 /\ ~IsExc(out))
                  => \A j \in (FadeInLength + 1)..n :
                         Frame(out, j) = Frame(audio_data, j)

\* the gain the two linear ramps give frame j of n (counted from 1): the
\* rising ramp 0 -> 1 over the first fi frames, the falling ramp 1 -> 0
\* over the last fo frames, 1 between them
RampGain(j, n, fi, fo) ==
    IF j <= fi THEN (IF fi = 1 THEN RatZero ELSE Rat(j - 1, fi - 1))
    ELSE IF j > n - fo
         THEN (IF fo = 1 THEN <<1, 1>> ELSE Rat(n - j, fo - 1))
    ELSE <<1, 1>>

\* C16: with fade lengths fi + fo < N, the result keeps every frame i with
\* fi <= i < N - fo equal to the input's, has the first fi frames scaled by
\* the rising ramp and the last fo frames by the falling ramp, and is what
\* a fade-in of fi followed by a separate fade-out of fo gives.
C16_FadesIndependent ==
    (FadeDone /\ FadeInLength + FadeOutLength < Len(audio_data.data))
    => LET n == Len(audio_data.data)
           out == result.value
           first == apply_fade(audio_data, args.fade_in_duration, <<0, 1>>,
                               args.sample_rate).value
           second == apply_fade(first, <<0, 1>>, args.fade_out_duration,
                                args.sample_rate).value
       IN  /\ ~IsExc(out)
           /\ out.ndim = audio_data.ndim
           /\ Len(out.data) = n
           /\ \A j \in 1..n :
                  Frame(out, j)
                    = FrameTimes(audio_data, j,
                                 RampGain(j, n, FadeInLength, FadeOutLength))
           /\ \A j \in (FadeInLength + 1)..(n - FadeOutLength) :
                  Frame(out, j) = Frame(audio_data, j)
           /\ out = second

\* a stereo buffer of five frames was faded in over one frame and out over
\* three: the first and the last frame are silenced, the fourth is halved
C16_Witness ==
    /\ FadeDone
    /\ audio_data.ndim = 2 /\ Len(audio_data.data) = 5
    /\ FadeInLength = 1 /\ FadeOutLength = 3
    /\ ~IsExc(result.value)
    /\ Frame(result.value, 1) = <<RatZero, RatZero>>
    /\ Frame(result.value, 2) = Frame(audio_data, 2)
    /\ Frame(result.value, 4) = FrameTimes(audio_data, 4, <<1, 2>>)
    /\ Frame(result.value, 5) = <<RatZero, RatZero>>

(***************************************************************************)
(* trim_silence                                                            *)
(***************************************************************************)
IntMin(a, b) == IF b < a THEN b ELSE a

\* np.mean(audio_data, axis=1) of a stereo buffer, the buffer itself if mono
MonoAudio(b) ==
    IF b.ndim > 1
    THEN [j \in 1..Len(b.data) |->
             RatMul(RatAdd(b.data[j][1], b.data[j][2]), <<1, 2>>)] \o <<>>
    ELSE b.data

\* the indices i, counted from 0, with abs_audio[i] > threshold
LoudIndices(abs_audio, threshold) ==
    {i \in 0..(Len(abs_audio) - 1) : RatLess(threshold, abs_audio[i + 1])}

SetMin(S) == CHOOSE x \in S : \A y \in S : x <= y

SetMax(S) == CHOOSE x \in S : \A y \in S : y <= x

\* a faulty variant: the end index starts at 0
EndIdxInitialZero(n) == 0

\* end_idx = len(abs_audio), before the backward scan
EndIdxInitial(n) == n

\* audio_data[start_idx:end_idx]
Slice(b, start_idx, end_idx) ==
    LET frames == IF end_idx > start_idx
                  THEN SubSeq(b.data, start_idx + 1, end_idx) ELSE <<>>
    IN  IF b.ndim = 1 THEN Buffer1(frames) ELSE Buffer2(frames)

\* value: what the call returns; audio_data: the caller's array after the
\* call; start_idx, end_idx: the two locals at the return
trim_silence(buffer, threshold, min_silence_duration, sample_rate) ==
    LET mono_audio == MonoAudio(buffer)
        abs_audio == [j \in 1..Len(mono_audio) |-> RatAbs(mono_audio[j])] \o <<>>
        min_silence_samples == DurationSamples(min_silence_duration, sample_rate)
        loud == LoudIndices(abs_audio, threshold)
        start_idx == IF loud = {} THEN 0
                     ELSE IntMax(0, SetMin(loud) - min_silence_samples)
        end_idx == IF loud = {} THEN EndIdxInitial(Len(abs_audio))
                   ELSE IntMin(Len(abs_audio), SetMax(loud) + min_silence_samples)
    IN  [value |-> Slice(buffer, start_idx, end_idx),
         audio_data |-> buffer,
         start_idx |-> start_idx,
         end_idx |-> end_idx]

\* mono and stereo buffers of at most MaxFrames + 2 frames
TrimBuffers ==
    LET samples == {<<0, 1>>, <<1, 200>>, <<-1, 2>>}
        rows == {<<(<<0, 1>>), (<<1, 200>>)>>, <<(<<1, 1>>), (<<-1, 1>>)>>,
                 <<(<<-1, 2>>), (<<-1, 4>>)>>}
    IN  {Buffer1(d) : d \in Lists(samples, MaxFrames + 2)}
        \cup {Buffer2(d) : d \in Lists(rows, MaxFrames + 2)}

\* 0.01, the default, and 0.5
Thresholds == {<<1, 100>>, <<1, 2>>}

\* 0, 0.1 and 0.2 seconds
SilenceDurations == {<<0, 1>>, <<1, 10>>, <<1, 5>>}

InitTrim ==
    /\ pc = "idle"
    /\ op = "trim_silence"
    /\ fs = InitialFS
    /\ tracks = <<>>
    /\ output_path = None
    /\ audio_data \in TrimBuffers
    /\ target_db = None
    /\ args \in [threshold : Thresholds,
                 min_silence_duration : SilenceDurations,
                 sample_rate : FadeSampleRates]
    /\ result = None
    /\ ServicesIdle

TrimSilenceCall ==
    /\ pc = "idle"
    /\ op = "trim_silence"
    /\ result' = trim_silence(audio_data, args.threshold,
                              args.min_silence_duration, args.sample_rate)
    /\ pc' = "done"
    /\ UNCHANGED <<op, fs, tracks, output_path, audio_data, target_db, args,
                   service_vars>>

NextTrim == TrimSilenceCall

SpecTrim == InitTrim /\ [][NextTrim]_vars

TrimDone == Done /\ op = "trim_silence"

\* no frame's channel-averaged absolute value exceeds the threshold
BelowThreshold(b, threshold) ==
    \A j \in 1..Len(b.data) :
        ~RatLess(threshold,
                 RatAbs(IF b.ndim = 1 THEN b.data[j]
                        ELSE RatMul(RatAdd(b.data[j][1], b.data[j][2]), <<1, 2>>)))

\* C18: of a buffer in which no frame's channel-averaged absolute value
\* exceeds the threshold, trim_silence returns the whole buffer, with start
\* index 0, end index the length and the input's channels, for every
\* min_silence_duration.
C18_SilenceNotTrimmed ==
    (TrimDone /\ BelowThreshold(audio_data, args.threshold))
    => /\ result.start_idx = 0
       /\ result.end_idx = Len(audio_data.data)
       /\ result.value = audio_data

\* three stereo frames whose channels are loud but average to zero were
\* trimmed with a non-zero min_silence_duration
C18_Witness ==
    /\ TrimDone
    /\ audio_data = Buffer2([j \in 1..3 |-> <<(<<1, 1>>), (<<-1, 1>>)>>])
    /\ args.min_silence_duration = <<1, 5>>
    /\ result.value = audio_data

(***************************************************************************)
(* apply_simple_effects: the filters.  A one-dimensional array is a mono   *)
(* buffer; each filter returns one, or the exception numpy raises.         *)
(***************************************************************************)
RECURSIVE RatSum(_, _, _, _)
\* term(lo) + ... + term(hi), added to acc
RatSum(term(_), lo, hi, acc) ==
    IF lo > hi THEN acc
    ELSE RatSum(term, lo + 1, hi, RatAdd(acc, term(lo)))

\* np.convolve takes the longer array as a and tests a, then v
EmptyConvolveError(a, v) ==
    IF Len(a) = 0 /\ Len(v) = 0 THEN Exc("ValueError", "a cannot be empty")
    ELSE Exc("ValueError", "v cannot be empty")

\* np.convolve(a, v, mode='full')[k], k counted from 0
ConvolveAt(a, v, k) ==
    LET term(i) == RatMul(a[i + 1], v[k - i + 1])
    IN  RatSum(term, IntMax(0, k - Len(v) + 1), IntMin(k, Len(a) - 1), RatZero)

\* np.convolve(a, v, mode='same'): max(len(a), len(v)) values from the
\* middle of the full convolution
ConvolveSame(a, v) ==
    LET first == (IntMin(Len(a), Len(v)) - 1) \div 2
    IN  IF Len(a) = 0 \/ Len(v) = 0 THEN EmptyConvolveError(a, v)
        ELSE Buffer1([j \in 1..IntMax(Len(a), Len(v)) |->
                         ConvolveAt(a, v, first + j - 1)])

\* np.ones(window_size) * value
Window(window_size, value) == [k \in 1..window_size |-> value] \o <<>>

\* x + y * g on one-dimensional arrays, with numpy's broadcasting of an
\* array of one value
AddScaled(x, y, g) ==
    LET n == IntMax(Len(x), Len(y))
        at(q, j) == IF Len(q) = 1 THEN q[1] ELSE q[j]
    IN  IF Len(x) # Len(y) /\ Len(x) # 1 /\ Len(y) # 1 THEN BroadcastError
        ELSE Buffer1([j \in 1..n |-> RatAdd(at(x, j), RatMul(at(y, j), g))])

\* 10 ** (db / 20) for the band gains of the equalizer
EqGain(db) ==
    CASE db = -20 -> <<1, 10>>
      [] db = 0 -> <<1, 1>>
      [] db = 20 -> <<10, 1>>

apply_low_shelf(audio, gain) ==
    LET low == ConvolveSame(audio.data, Window(10, <<1, 10>>))
    IN  IF IsExc(low) THEN low
        ELSE AddScaled(audio.data, low.data, RatSub(gain, <<1, 1>>))

apply_mid_band(audio, gain) ==
    LET low == ConvolveSame(audio.data, Window(5, <<1, 5>>))
        wide == ConvolveSame(audio.data, Window(10, <<2, 5>>))
        high == IF IsExc(wide) THEN wide
                ELSE AddScaled(audio.data, wide.data, <<-1, 1>>)
        less_low == IF IsExc(low) THEN low
                    ELSE AddScaled(audio.data, low.data, <<-1, 1>>)
        mid == IF IsExc(less_low) THEN less_low
               ELSE IF IsExc(high) THEN high
               ELSE AddScaled(less_low.data, high.data, <<-1, 1>>)
    IN  IF IsExc(mid) THEN mid
        ELSE AddScaled(audio.data, mid.data, RatSub(gain, <<1, 1>>))

apply_high_shelf(audio, gain) ==
    LET low == ConvolveSame(audio.data, Window(10, <<1, 10>>))
        high == IF IsExc(low) THEN low
                ELSE AddScaled(audio.data, low.data, <<-1, 1>>)
    IN  IF IsExc(high) THEN high
        ELSE AddScaled(audio.data, high.data, RatSub(gain, <<1, 1>>))

\* column c of a stereo buffer, the buffer itself if mono
Channel(b, c) ==
    IF b.ndim = 1 THEN b
    ELSE Buffer1([j \in 1..Len(b.data) |-> b.data[j][c]])

\* the stereo buffer of two columns
Columns(left, right) ==
    Buffer2([j \in 1..Len(left.data) |-> <<left.data[j], right.data[j]>>])

\* the impulse responses np.random.random may give, after the division by
\* their sum: one value is always 1; of more, those with zeros from the
\* third value on
Impulses(impulse_length) ==
    IF impulse_length = 0 THEN {<<>>}
    ELSE IF impulse_length = 1 THEN {<< <<1, 1>> >>}
    ELSE {[k \in 1..impulse_length |->
              IF k = 1 THEN first
              ELSE IF k = 2 THEN RatSub(<<1, 1>>, first) ELSE RatZero] \o <<>> :
            first \in {<<1, 1>>, <<1, 2>>}}

\* int(decay * 48000)
ImpulseLength(decay) == DurationSamples(decay, 48000)

\* (1 - wet) * audio + wet * processed, on arrays of one length
WetMix(audio, processed, wet) ==
    Buffer1([j \in 1..Len(audio) |->
                RatAdd(RatMul(RatSub(<<1, 1>>, wet), audio[j]),
                       RatMul(wet, processed[j]))])

\* one channel of _apply_simple_reverb
ReverbChannel(audio, impulse, wet) ==
    IF Len(audio.data) = 0 \/ Len(impulse) = 0
    THEN EmptyConvolveError(audio.data, impulse)
    ELSE WetMix(audio.data,
                [j \in 1..Len(audio.data) |->
                    ConvolveAt(audio.data, impulse, j - 1)] \o <<>>,
                wet)

apply_simple_reverb(audio, impulse, wet) ==
    IF audio.ndim > 1
    THEN LET left == ReverbChannel(Channel(audio, 1), impulse, wet)
             right == ReverbChannel(Channel(audio, 2), impulse, wet)
         IN  IF IsExc(left) THEN left
             ELSE IF IsExc(right) THEN right
             ELSE Columns(left, right)
    ELSE ReverbChannel(audio, impulse, wet)

\* int(time_ms * sample_rate / 1000) with sample_rate = 44100; time_ms is
\* the double nearest to the fraction <<n, d>>
DelaySamples(time_ms) ==
    FloatTrunc(FloatDivInt(FloatMulInt(FloatDiv(time_ms[1], time_ms[2]), 44100),
                           1000))

RECURSIVE RatPow(_, _)
RatPow(x, k) == IF k = 0 THEN <<1, 1>> ELSE RatMul(x, RatPow(x, k - 1))

RECURSIVE FeedbackLoop(_, _, _, _, _)
\* the loop 'for i in range(5)' from i on; delayed is the array so far
FeedbackLoop(audio, delayed, delay_samples, feedback, i) ==
    LET feedback_amount == RatPow(feedback, i + 1)
        delay_idx == delay_samples * (i + 2)
    IN  IF i >= 5 THEN delayed
        ELSE IF RatLess(feedback_amount, <<1, 100>>) THEN delayed
        ELSE FeedbackLoop(audio,
                 IF delay_idx < Len(delayed)
                 THEN [j \in 1..Len(delayed) |->
                          IF j > delay_idx
                          THEN RatAdd(delayed[j],
                                      RatMul(feedback_amount, audio[j - delay_idx]))
                          ELSE delayed[j]] \o <<>>
                 ELSE delayed,
                 delay_samples, feedback, i + 1)

\* one channel of _apply_simple_delay, for delay_samples > 0
DelayChannel(audio, delay_samples, feedback, wet) ==
    LET delayed == [j \in 1..Len(audio.data) |->
                       IF j > delay_samples THEN audio.data[j - delay_samples]
                       ELSE RatZero] \o <<>>
    IN  WetMix(audio.data,
               FeedbackLoop(audio.data, delayed, delay_samples, feedback, 0),
               wet)

apply_simple_delay(audio, time_ms, feedback, wet) ==
    LET delay_samples == DelaySamples(time_ms)
    IN  IF delay_samples <= 0 THEN audio
        ELSE IF audio.ndim > 1
        THEN Columns(DelayChannel(Channel(audio, 1), delay_samples, feedback, wet),
                     DelayChannel(Channel(audio, 2), delay_samples, feedback, wet))
        ELSE DelayChannel(audio, delay_samples, feedback, wet)

(***************************************************************************)
(* apply_simple_effects.  The effects dictionary is a record: keys lists   *)
(* the keys it holds, in the order the caller inserted them; the field of  *)
(* a key that is not listed is not read.  eq is such a record itself.      *)
(***************************************************************************)
\* a faulty variant: every key counts as present
HasKeyAlways(dict, key) == TRUE

\* key in dict
HasKey(dict, key) == key \in SeqSet(dict.keys)

\* a faulty variant: the stages run in the order of the dictionary's keys
StageOrderOfKeys(effects) == effects.keys

\* the order of the four tests in the body
StageOrder(effects) == <<"eq", "reverb", "delay", "normalize">>

\* the order of the three tests for the bands
BandOrder(eq) == <<"low", "mid", "high">>

\* effects.get('normalize', False)
NormalizeRequested(effects) == HasKey(effects, "normalize") /\ effects.normalize

EqBand(band, audio, eq) ==
    CASE band = "low" -> apply_low_shelf(audio, EqGain(eq.low))
      [] band = "mid" -> apply_mid_band(audio, EqGain(eq.mid))
      [] band = "high" -> apply_high_shelf(audio, EqGain(eq.high))

\* result[:, c] = column
SetColumn(b, c, column) ==
    Buffer2([j \in 1..Len(b.data) |->
                IF c = 1 THEN <<column.data[j], b.data[j][2]>>
                ELSE <<b.data[j][1], column.data[j]>>])

\* the stage's entry in the trace of the call
Ran(st, stage, channel) == Append(st.trace, [stage |-> stage, channel |-> channel])

\* one band on channel c of the result (c = 0: the mono result itself),
\* when the band's key is in eq.  st holds the arrays of the call
\* (audio_data and the copy), the name res of the array that result names,
\* result itself, and the trace of the stages run.
EqBandStep(eq, band, c, st) ==
    LET store(written) ==
            [st EXCEPT !.result = written, !.arrays[st.res] = written,
                       !.trace = Ran(st, band, c)]
        assign(filtered) ==
            IF IsExc(filtered) \/ c = 0
            THEN [st EXCEPT !.result = filtered, !.trace = Ran(st, band, c)]
            ELSE IF Len(filtered.data) # Len(st.result.data)
            THEN [st EXCEPT !.result = BroadcastError, !.trace = Ran(st, band, c)]
            ELSE store(SetColumn(st.result, c, filtered))
    IN  IF HasKey(eq, band)
        THEN assign(EqBand(band, Channel(st.result, IntMax(c, 1)), eq))
        ELSE st

RECURSIVE EqBands(_, _, _, _)
\* the bands from position i of the order on, on channel c of the result
EqBands(eq, i, c, st) ==
    IF i > Len(BandOrder(eq)) \/ IsExc(st.result) THEN st
    ELSE EqBands(eq, i + 1, c, EqBandStep(eq, BandOrder(eq)[i], c, st))

RECURSIVE EqChannels(_, _, _, _)
\* for ch in range(audio_data.shape[1]), from channel c to channel last
EqChannels(eq, c, last, st) ==
    IF c > last THEN st
    ELSE EqChannels(eq, c + 1, last, EqBands(eq, 1, c, st))

EqStage(effects, st) ==
    IF st.result.ndim > 1 THEN EqChannels(effects.eq, 1, 2, st)
    ELSE EqChannels(effects.eq, 0, 0, st)

ReverbStage(effects, impulse, st) ==
    IF RatLess(RatZero, effects.reverb.decay) /\ RatLess(RatZero, effects.reverb.wet)
    THEN [st EXCEPT !.result = apply_simple_reverb(st.result, impulse,
                                                   effects.reverb.wet),
                    !.trace = Ran(st, "reverb", 0)]
    ELSE st

DelayStage(effects, st) ==
    IF RatLess(RatZero, effects.delay.time) /\ RatLess(RatZero, effects.delay.wet)
    THEN [st EXCEPT !.result = apply_simple_delay(st.result, effects.delay.time,
                                                  effects.delay.feedback,
                                                  effects.delay.wet),
                    !.trace = Ran(st, "delay", 0)]
    ELSE st

NormalizeStage(effects, st) ==
    [st EXCEPT !.result = normalize_audio(st.result, DefaultTargetDb),
               !.trace = Ran(st, "normalize", 0)]

\* the stage's test and, when it passes, the stage
Stage(stage, effects, impulse, st) ==
    IF stage = "normalize"
    THEN (IF NormalizeRequested(effects) THEN NormalizeStage(effects, st) ELSE st)
    ELSE IF ~HasKey(effects, stage) THEN st
    ELSE CASE stage = "eq" -> EqStage(effects, st)
           [] stage = "reverb" -> ReverbStage(effects, impulse, st)
           [] stage = "delay" -> DelayStage(effects, st)

RECURSIVE Stages(_, _, _, _)
Stages(effects, impulse, i, st) ==
    IF i > Len(StageOrder(effects)) \/ IsExc(st.result) THEN st
    ELSE Stages(effects, impulse, i + 1,
                Stage(StageOrder(effects)[i], effects, impulse, st))

\* value: what the call returns or raises; audio_data: the caller's array
\* after the call; trace: the stages run, in order, each with the channel
\* it ran on (0: the whole buffer).  impulse is what the random impulse
\* response of the reverb came out as, and is reported with the outcome.
apply_simple_effects(buffer, effects, impulse) ==
    LET res == ArrayCopy("audio_data")
        final == Stages(effects, impulse, 1,
                        [arrays |-> [audio_data |-> buffer, result |-> buffer],
                         res |-> res, result |-> buffer, trace |-> <<>>])
    IN  [value |-> final.result,
         audio_data |-> final.arrays.audio_data,
         trace |-> final.trace,
         impulse |-> impulse]

(***************************************************************************)
(* Calls of apply_simple_effects.                                          *)
(***************************************************************************)
\* the dictionaries: every order of every set of keys; band gains in dB; a
\* decay of 1/20000 makes an impulse response of two values, one of 0 is
\* the caller's way of switching the reverb off; a delay of 0.1 ms is four
\* samples.  The field of an absent key is the first of its kind.
EffectsConfigs ==
    LET keys == {"eq", "reverb", "delay", "normalize"}
        orders == {q \in Lists(keys, Cardinality(keys)) :
                      \A i, j \in 1..Len(q) : i # j => q[i] # q[j]}
        eqs == {[keys |-> <<"low", "mid", "high">>, low |-> 20, mid |-> 0, high |-> 0],
                [keys |-> <<"high", "low">>, low |-> 0, mid |-> 0, high |-> 20],
                [keys |-> <<"mid">>, low |-> 0, mid |-> -20, high |-> 0],
                [keys |-> <<>>, low |-> 0, mid |-> 0, high |-> 0]}
        reverbs == {[decay |-> <<1, 20000>>, wet |-> <<1, 2>>],
                    [decay |-> <<0, 1>>, wet |-> <<1, 2>>]}
        delays == {[time |-> <<1, 10>>, feedback |-> <<1, 2>>, wet |-> <<1, 2>>]}
        first(x) ==
            /\ "eq" \notin SeqSet(x.keys) => x.eq.keys = <<"low", "mid", "high">>
            /\ "reverb" \notin SeqSet(x.keys) => x.reverb.decay # RatZero
            /\ "normalize" \notin SeqSet(x.keys) => ~x.normalize
    IN  {x \in [keys : orders, eq : eqs, reverb : reverbs, delay : delays,
                normalize : BOOLEAN] : first(x)}

\* a mono and a stereo buffer of 0, 1 and MaxFrames + 8 frames, with the
\* samples 1, -1/2, 1/4, 0, 1, ...
EffectsBuffers ==
    LET lengths == {0, 1, MaxFrames + 8}
        pattern(j) == CASE j % 4 = 1 -> <<1, 1>>
                        [] j % 4 = 2 -> <<-1, 2>>
                        [] j % 4 = 3 -> <<1, 4>>
                        [] OTHER -> RatZero
    IN  {Buffer1([j \in 1..n |-> pattern(j)]) : n \in lengths}
        \cup {Buffer2([j \in 1..n |-> <<pattern(j), pattern(j + 1)>>]) :
                n \in lengths}

InitEffects ==
    /\ pc = "idle"
    /\ op = "apply_simple_effects"
    /\ fs = InitialFS
    /\ tracks = <<>>
    /\ output_path = None
    /\ audio_data \in EffectsBuffers
    /\ target_db = None
    /\ args \in {[effects |-> e] : e \in EffectsConfigs}
    /\ result = None
    /\ ServicesIdle

\* np.random is called only by the reverb
ImpulsesOf(effects) ==
    IF HasKey(effects, "reverb") THEN Impulses(ImpulseLength(effects.reverb.decay))
    ELSE {<<>>}

ApplySimpleEffectsCall ==
    /\ pc = "idle"
    /\ op = "apply_simple_effects"
    /\ \E impulse \in ImpulsesOf(args.effects) :
           result' = apply_simple_effects(audio_data, args.effects, impulse)
    /\ pc' = "done"
    /\ UNCHANGED <<op, fs, tracks, output_path, audio_data, target_db, args,
                   service_vars>>

NextEffects == ApplySimpleEffectsCall

SpecEffects == InitEffects /\ [][NextEffects]_vars

(***************************************************************************)
(* Properties of apply_simple_effects.                                     *)
(***************************************************************************)
EffectsDone == Done /\ op = "apply_simple_effects"

StageRank(stage) ==
    CASE stage = "low" -> 1
      [] stage = "mid" -> 2
      [] stage = "high" -> 3
      [] stage = "reverb" -> 4
      [] stage = "delay" -> 5
      [] stage = "normalize" -> 6

\* the call's state before its first stage
BeforeStages(buffer) ==
    [arrays |-> [audio_data |-> buffer, result |-> buffer],
     res |-> "result", result |-> buffer, trace |-> <<>>]

\* the stage on the previous stage's outcome, unless that was an exception
AndThen(st, stage) ==
    IF IsExc(st.result) THEN st
    ELSE Stage(stage, args.effects, result.impulse, st)

\* EQ, then reverb, then delay, then normalization, each on the output of
\* the one before
InFixedOrder ==
    AndThen(AndThen(AndThen(AndThen(BeforeStages(audio_data), "eq"), "reverb"),
                    "delay"), "normalize")

\* C19: the stages of apply_simple_effects run in the order EQ (low, mid,
\* high), reverb, delay, normalization, each on the previous stage's
\* output, whatever the order of the keys in the configuration.
C19_FixedStageOrder ==
    EffectsDone =>
        /\ \A i, j \in 1..Len(result.trace) :
               (/\ i < j
                /\ \/ result.trace[i].channel = result.trace[j].channel
                   \/ StageRank(result.trace[i].stage) > 3
                   \/ StageRank(result.trace[j].stage) > 3)
               => StageRank(result.trace[i].stage) < StageRank(result.trace[j].stage)
        /\ LET fixed == InFixedOrder
           IN  /\ result.trace = fixed.trace
               /\ result.value = fixed.result

\* all four stages ran on a stereo buffer though the keys were given in
\* the reverse order
C19_Witness ==
    /\ EffectsDone
    /\ args.effects.keys = <<"normalize", "delay", "reverb", "eq">>
    /\ args.effects.eq.keys = <<"high", "low">>
    /\ audio_data.ndim = 2
    /\ ~IsExc(result.value)
    /\ Len(result.trace) = 7
    /\ result.trace[7].stage = "normalize"

\* the stage of the one key of the configuration, alone, on buffer
SingleStage(buffer) ==
    Stage(args.effects.keys[1], args.effects, result.impulse, BeforeStages(buffer))

\* C20: a stage runs only if its key is in the configuration (normalize:
\* in it and true); with no key the output is the input sample for sample;
\* with one key the output is that stage's output on the input.
C20_OnlyPresentKeysRun ==
    EffectsDone =>
        /\ \A i \in 1..Len(result.trace) :
               LET stage == result.trace[i].stage
               IN  IF StageRank(stage) <= 3
                   THEN /\ "eq" \in SeqSet(args.effects.keys)
                        /\ stage \in SeqSet(args.effects.eq.keys)
                   ELSE /\ stage \in SeqSet(args.effects.keys)
                        /\ stage = "normalize" => args.effects.normalize
        /\ args.effects.keys = <<>> =>
               /\ result.value = audio_data
               /\ result.trace = <<>>
        /\ Len(args.effects.keys) = 1 =>
               LET single == SingleStage(audio_data)
               IN  /\ result.value = single.result
                   /\ result.trace = single.trace

\* a configuration holding only the delay changed a stereo buffer
C20_Witness ==
    /\ EffectsDone
    /\ args.effects.keys = <<"delay">>
    /\ audio_data.ndim = 2 /\ Len(audio_data.data) > 4
    /\ ~IsExc(result.value)
    /\ result.value # audio_data
    /\ result.trace = <<[stage |-> "delay", channel |-> 0]>>

(***************************************************************************)
(* analyze_audio.  Levels are kept exact: the square root of a rational q  *)
(* is the term [sqrt |-> q], and a level in dB is [sqrt |-> q, plus |-> f] *)
(* for 20 * log10(sqrt(q)) + f.  The function reads audio_data and writes  *)
(* into no array.                                                          *)
(***************************************************************************)
\* np.sqrt(q)
Sqrt(q) == [sqrt |-> q]

\* 20 * np.log10(x) if x > 0 else floor, for x = sqrt(q)
DbOfSqrt(q, floor) ==
    IF RatLess(RatZero, q) THEN [sqrt |-> q, plus |-> 0]
    ELSE [sqrt |-> <<1, 1>>, plus |-> floor]

\* a faulty variant: a buffer of 1024 frames has its spectrum taken
HasSpectrumFrom1024(n) == n >= 1024

\* len(mono_audio) > 1024
HasSpectrum(n) == n > 1024

\* n_fft = 2048, or len(mono_audio) if that is less
FftLength(n) == IF n < 2048 THEN n ELSE 2048

\* x repeats its first four values and has a multiple of four of them
Periodic4(x) ==
    /\ Len(x) % 4 = 0
    /\ Len(x) >= 4
    /\ \A j \in 5..Len(x) : x[j] = x[j - 4]

\* np.argmax(np.abs(np.fft.rfft(x))): the bins it may give.  The transform
\* of a signal of period four and length N is zero except in the bins 0,
\* N/4 and N/2, where its squared magnitude is (N/4)^2 times power[k]
\* below; bins of equal exact magnitude are told apart only by rounding,
\* so each of them may come out.  Of any other signal every bin may.
DominantBins(x) ==
    IF ~Periodic4(x) THEN 0..(Len(x) \div 2)
    ELSE LET sq(v) == RatMul(v, v)
             quarter == Len(x) \div 4
             power == [k \in {0, quarter, 2 * quarter} |->
                 CASE k = 0 ->
                        sq(RatAdd(RatAdd(x[1], x[2]), RatAdd(x[3], x[4])))
                   [] k = quarter ->
                        RatAdd(sq(RatSub(x[1], x[3])), sq(RatSub(x[2], x[4])))
                   [] OTHER ->
                        sq(RatAdd(RatSub(x[1], x[2]), RatSub(x[3], x[4])))]
             top == RatMaxOf({power[k] : k \in DOMAIN power})
         IN  IF top = RatZero THEN {0}
             ELSE {k \in DOMAIN power : power[k] = top}

\* the values max_freq_idx may take in a call on buffer
MaxFreqIdxOf(buffer) ==
    LET mono_audio == MonoAudio(buffer)
    IN  IF HasSpectrum(Len(mono_audio))
        THEN DominantBins(SubSeq(mono_audio, 1, FftLength(Len(mono_audio))))
        ELSE {0}

RECURSIVE PairwiseSum(_, _, _)
\* term(lo) + ... + term(hi), added by halves as np.mean and np.sum add
PairwiseSum(term(_), lo, hi) ==
    IF lo > hi THEN RatZero
    ELSE IF lo = hi THEN term(lo)
    ELSE RatAdd(PairwiseSum(term, lo, (lo + hi) \div 2),
                PairwiseSum(term, (lo + hi) \div 2 + 1, hi))

\* the report of a buffer that has frames, at a sample rate other than 0
Report(buffer, mono_audio, sample_rate, max_freq_idx, n) ==
    LET at(j) == mono_audio[j]
        square(j) == RatMul(mono_audio[j], mono_audio[j])
        loud(j) == ~RatLess(RatAbs(mono_audio[j]), <<999, 1000>>)
        levels(peak, mean_square, clipped_samples) ==
            LET crest == IF RatLess(RatZero, mean_square)
                         THEN RatDiv(RatMul(peak, peak), mean_square)
                         ELSE RatZero
            IN  [duration |-> Rat(n, sample_rate),
                 peak |-> peak,
                 peak_db |-> DbOfSqrt(RatMul(peak, peak), -100),
                 rms |-> Sqrt(mean_square),
                 rms_db |-> DbOfSqrt(mean_square, -100),
                 crest_factor |-> Sqrt(crest),
                 crest_factor_db |-> DbOfSqrt(crest, 0),
                 clipped_samples |-> clipped_samples,
                 clipping_percentage |-> Rat(clipped_samples * 100, n),
                 dc_offset |-> RatDiv(PairwiseSum(at, 1, n), <<n, 1>>),
                 dominant_frequency |->
                     IF HasSpectrum(n)
                     THEN Rat(max_freq_idx * sample_rate, FftLength(n))
                     ELSE RatZero,
                 sample_rate |-> sample_rate,
                 num_channels |-> IF buffer.ndim > 1 THEN 2 ELSE 1,
                 num_samples |-> n]
    IN  levels(RatMaxOf({RatAbs(mono_audio[j]) : j \in 1..n}),
               RatDiv(PairwiseSum(square, 1, n), <<n, 1>>),
               Cardinality({j \in 1..n : loud(j)}))

\* value: the report, or what the call raises; audio_data: the caller's
\* array after the call; n_fft: the length of the FFT taken, 0 if none was.
\* max_freq_idx is what np.argmax came out as.
analyze_audio(buffer, sample_rate, max_freq_idx) ==
    LET outcome(mono_audio, n) ==
            [value |-> IF sample_rate = 0 THEN ZeroDivisionError
                       ELSE IF n = 0 THEN ZeroSizeError
                       ELSE Report(buffer, mono_audio, sample_rate,
                                   max_freq_idx, n),
             audio_data |-> buffer,
             n_fft |-> IF sample_rate # 0 /\ n > 0 /\ HasSpectrum(n)
                       THEN FftLength(n) ELSE 0]
    IN  outcome(MonoAudio(buffer), Len(buffer.data))

\* the buffers of at most MaxFrames + 1 frames, and mono and stereo buffers
\* of 1024 to 2056 frames that repeat four values in their first 2048
\* frames and hold other values after them
AnalyzeBuffers ==
    LET patterns == {<< <<1, 1>>, <<0, 1>>, <<-1, 1>>, <<0, 1>> >>,
                     << <<1, 2>>, <<-1, 2>>, <<1, 2>>, <<-1, 2>> >>,
                     << <<1, 4>>, <<1, 4>>, <<1, 4>>, <<1, 4>> >>,
                     << <<1, 1>>, <<0, 1>>, <<0, 1>>, <<0, 1>> >>,
                     << <<0, 1>>, <<0, 1>>, <<0, 1>>, <<0, 1>> >>}
        lengths == {1024, 1028, 2048, 2056}
        sample(p, j) == IF j <= 2048 THEN p[((j - 1) % 4) + 1]
                        ELSE IF j % 2 = 0 THEN <<1, 1>> ELSE <<-1, 1>>
    IN  FewBuffers
        \cup {Buffer1([j \in 1..n |-> sample(p, j)]) :
                p \in patterns, n \in lengths}
        \cup {Buffer2([j \in 1..n |-> <<sample(p, j), sample(p, j)>>]) :
                p \in patterns, n \in lengths}

InitAnalyze ==
    /\ pc = "idle"
    /\ op = "analyze_audio"
    /\ fs = InitialFS
    /\ tracks = <<>>
    /\ output_path = None
    /\ audio_data \in AnalyzeBuffers
    /\ target_db = None
    /\ args \in {[sample_rate |-> r] : r \in {0, 44100, 48000}}
    /\ result = None
    /\ ServicesIdle

AnalyzeAudioCall ==
    /\ pc = "idle"
    /\ op = "analyze_audio"
    /\ \E max_freq_idx \in MaxFreqIdxOf(audio_data) :
           result' = analyze_audio(audio_data, args.sample_rate, max_freq_idx)
    /\ pc' = "done"
    /\ UNCHANGED <<op, fs, tracks, output_path, audio_data, target_db, args,
                   service_vars>>

NextAnalyze == AnalyzeAudioCall

SpecAnalyze == InitAnalyze /\ [][NextAnalyze]_vars

(***************************************************************************)
(* The engine's operations on a buffer, each called once on its inputs.    *)
(***************************************************************************)
InitEngine ==
    \/ InitResample
    \/ InitNormalize
    \/ InitFade
    \/ InitTrim
    \/ InitEffects
    \/ InitAnalyze

NextEngine ==
    \/ ResampleAudioCall
    \/ NormalizeAudioCall
    \/ ApplyFadeCall
    \/ TrimSilenceCall
    \/ ApplySimpleEffectsCall
    \/ AnalyzeAudioCall

SpecEngine == InitEngine /\ [][NextEngine]_vars

\* C17: after a call of resample_audio, normalize_audio, apply_fade,
\* trim_silence, apply_simple_effects or analyze_audio, whether it returned
\* or raised, the caller's buffer holds the values it held before the call.
C17_CallerBufferUnchanged ==
    Done => result.audio_data = audio_data

\* the EQ wrote all three bands into both columns of its stereo result, the
\* value returned differs from the input, and the input is as it was
C17_Witness ==
    /\ Done
    /\ op = "apply_simple_effects"
    /\ audio_data.ndim = 2
    /\ ~IsExc(result.value)
    /\ [stage |-> "high", channel |-> 2] \in SeqSet(result.trace)
    /\ result.value # audio_data
    /\ result.audio_data = audio_data

(***************************************************************************)
(* Two calls of apply_simple_effects on the same buffer with the same      *)
(* configuration.  The second call draws its own impulse response; result  *)
(* then holds the outcome of both.                                         *)
(***************************************************************************)
ApplySimpleEffectsAgain ==
    /\ pc = "done"
    /\ op = "apply_simple_effects"
    /\ \E impulse \in ImpulsesOf(args.effects) :
           result' = [first |-> result,
                      again |-> apply_simple_effects(audio_data, args.effects,
                                                     impulse)]
    /\ pc' = "done again"
    /\ UNCHANGED <<op, fs, tracks, output_path, audio_data, target_db, args,
                   service_vars>>

NextTwice ==
    \/ ApplySimpleEffectsCall
    \/ ApplySimpleEffectsAgain

SpecTwice == InitEffects /\ [][NextTwice]_vars

\* C21: two calls of apply_simple_effects with equal buffers and equal
\* configurations return equal results, also when the reverb stage runs.
C21_EffectsDeterministic ==
    pc = "done again" => result.again.value = result.first.value

(***************************************************************************)
(* Properties of analyze_audio.                                            *)
(***************************************************************************)
AnalyzeDone == Done /\ op = "analyze_audio"

ReportFields ==
    {"duration", "peak", "peak_db", "rms", "rms_db", "crest_factor",
     "crest_factor_db", "clipped_samples", "clipping_percentage", "dc_offset",
     "dominant_frequency", "sample_rate", "num_channels", "num_samples"}

\* the report has every field, and the dominant frequency is that of a bin
\* of greatest magnitude of the first min(2048, n) samples when n > 1024,
\* and 0 with no FFT taken otherwise
SpectrumByLength ==
    LET n == Len(audio_data.data)
        window == IntMin(2048, n)
    IN  /\ ~IsExc(result.value)
        /\ DOMAIN result.value = ReportFields
        /\ result.value.num_samples = n
        /\ result.value.num_channels = audio_data.ndim
        /\ result.value.sample_rate = args.sample_rate
        /\ n > 1024 =>
               /\ result.n_fft = window
               /\ \E k \in DominantBins(SubSeq(MonoAudio(audio_data), 1, window)) :
                      result.value.dominant_frequency
                          = Rat(k * args.sample_rate, window)
        /\ n <= 1024 =>
               /\ result.n_fft = 0
               /\ result.value.dominant_frequency = RatZero

\* C22: analyze_audio takes the FFT of the first min(2048, frame_count)
\* samples and reports the frequency of its greatest bin exactly when the
\* buffer has more than 1024 frames; for 1024 frames or fewer it reports
\* dominant_frequency 0 and takes no FFT; the other fields of the report
\* are computed in both cases.
C22_SpectrumOnlyOfLongBuffers ==
    AnalyzeDone => SpectrumByLength

\* C22 as amended: the same, of a buffer that has frames and a sample rate
\* other than 0 (of a buffer of no frames, and at sample rate 0, the call
\* raises and reports nothing).
C22_SpectrumOfBuffersWithFrames ==
    (AnalyzeDone /\ Len(audio_data.data) > 0 /\ args.sample_rate # 0)
        => SpectrumByLength

\* a stereo buffer of 2056 frames whose first 2048 repeat 1, 0, -1, 0 has
\* its dominant frequency, a quarter of the sample rate, taken from an FFT
\* of 2048 samples
C22_Witness ==
    /\ AnalyzeDone
    /\ audio_data.ndim = 2
    /\ Len(audio_data.data) = 2056
    /\ args.sample_rate = 44100
    /\ ~IsExc(result.value)
    /\ result.n_fft = 2048
    /\ result.value.dominant_frequency = <<11025, 1>>

(***************************************************************************)
(* The mix of three tracks: A, mono at 44100 Hz, volume 100, pan 0; B,     *)
(* stereo at 22050 Hz, half as long as A, volume 50, pan -50; and a muted  *)
(* track C.  B has n frames and A has 4 * n; the 2 s and 1 s of a mix of   *)
(* 88200 frames are n = 22050.                                             *)
(***************************************************************************)
ScenarioFS(n, a, l, r) ==
    [p \in {"A.wav", "B.wav", "C.wav"} |->
        CASE p = "A.wav" ->
               AudioFile(44100, Buffer1([j \in 1..(4 * n) |->
                   IF j % 2 = 1 THEN a ELSE RatMul(a, <<-1, 2>>)]))
          [] p = "B.wav" ->
               AudioFile(22050, Buffer2([j \in 1..n |->
                   IF j % 2 = 1 THEN <<l, r>> ELSE <<r, l>>]))
          [] OTHER -> FileC]

\* A, B and the muted C, C first or last, over any file, with any volume,
\* pan and solo flag
ScenarioTracks ==
    LET A == [file_path |-> "A.wav", muted |-> FALSE, solo |-> FALSE,
              volume |-> 100, pan |-> 0]
        B == [file_path |-> "B.wav", muted |-> FALSE, solo |-> FALSE,
              volume |-> 50, pan |-> -50]
        Cs == [file_path : {"C.wav", "A.wav", "missing.wav"}, muted : {TRUE},
               solo : BOOLEAN, volume : {50, 100}, pan : {0, 100}]
    IN  {<<A, B, C>> : C \in Cs} \cup {<<C, A, B>> : C \in Cs}

InitScenario ==
    /\ pc = "idle"
    /\ op = "mix_tracks"
    /\ fs \in {ScenarioFS(n, a, <<1, 2>>, <<-1, 4>>) :
                 n \in 1..(MaxFrames + 1), a \in {<<1, 2>>, <<-1, 4>>}}
    /\ tracks \in ScenarioTracks
    /\ output_path \in OutputPaths
    /\ audio_data = None
    /\ target_db = None
    /\ args = None
    /\ result = None
    /\ ServicesIdle

SpecScenario == InitScenario /\ [][Next]_vars

\* the mix the scenario should give with the gains left_gain and right_gain
\* on B: A plus half of B's channels times their gains, B taken at 44100 Hz
\* and as zeros after its end, the sum normalized
ScenarioMix(left_gain, right_gain) ==
    LET A == fs["A.wav"].audio.data
        B == resample_audio(fs["B.wav"].audio, 22050, 44100).data
        half(x, gain) == RatMul(RatMul(x, gain), <<1, 2>>)
        frame(j) ==
            IF j <= Len(B)
            THEN <<RatAdd(A[j], half(B[j][1], left_gain)),
                   RatAdd(A[j], half(B[j][2], right_gain))>>
            ELSE <<A[j], A[j]>>
    IN  normalize_audio(Buffer2([j \in 1..Len(A) |-> frame(j)]), DefaultTargetDb)

\* the output is as long as A at 44100 Hz, C was neither read nor summed,
\* B was taken at twice its frames, and the mix is that of the gains; and
\* 2 s at 44100 Hz come out as 88200 frames, 1 s at 22050 Hz as 44100
ScenarioHolds(left_gain, right_gain) ==
    /\ ~IsExc(result.value)
    /\ result.value.sample_rate = 44100
    /\ Len(result.value.mixed_audio.data) = Len(fs["A.wav"].audio.data)
    /\ result.reads = <<"A.wav", "B.wav">>
    /\ \A i \in 1..Len(tracks) : tracks[i].muted <=> i \notin SeqSet(result.summed)
    /\ Len(resample_audio(fs["B.wav"].audio, 22050, 44100).data)
           = 2 * Len(fs["B.wav"].audio.data)
    /\ result.value.mixed_audio = ScenarioMix(left_gain, right_gain)
    /\ OutputLength(FloatDiv(88200, 44100), 44100) = 88200
    /\ ResampleLength(22050, 22050, 44100) = 44100

\* C23: in the mix of A, B and the muted C the output has A's frames at
\* 44100 Hz, C contributes nothing, B is resampled to 44100 Hz and padded
\* with zeros to A's length, and B's left and right channels are scaled by
\* cos(0.25 pi) * 0.5 and sin(0.25 pi) * 0.5 before they are summed with A.
C23_ScenarioCentreGains ==
    Done => ScenarioHolds(<<707, 1000>>, <<707, 1000>>)

\* C23 as amended: the same, with B's left and right channels scaled by
\* cos(0.125 pi) * 0.5 and sin(0.125 pi) * 0.5, the gains of the
\* equal-power law for pan -50.
C23_ScenarioPannedGains ==
    Done => ScenarioHolds(<<231, 250>>, <<383, 1000>>)

\* the mix of A of 12 frames and B of 3, C first and soloed though muted:
\* the channels differ while B sounds and are equal after its end
C23_Witness ==
    /\ Done
    /\ Len(fs["B.wav"].audio.data) = 3
    /\ tracks[1].muted /\ tracks[1].solo
    /\ ~IsExc(result.value)
    /\ Len(result.value.mixed_audio.data) = 12
    /\ result.value.mixed_audio.data[1][1] # result.value.mixed_audio.data[1][2]
    /\ result.value.mixed_audio.data[7][1] = result.value.mixed_audio.data[7][2]

(***************************************************************************)
(* Mixes of a track with pan 0 and a track with another pan.               *)
(***************************************************************************)
PanPairs ==
    LET centred == [file_path : {"a.wav", "b.wav", "c.wav"}, muted : {FALSE},
                    solo : {FALSE}, volume : {50, 100}, pan : {0}]
        panned == [file_path : {"a.wav", "b.wav", "c.wav"}, muted : {FALSE},
                   solo : {FALSE}, volume : {50, 100},
                   pan : {-100, -50, 50, 100}]
    IN  {<<p, q>> : p \in centred, q \in panned}
        \cup {<<q, p>> : p \in centred, q \in panned}

InitPan ==
    /\ pc = "idle"
    /\ op = "mix_tracks"
    /\ fs = InitialFS
    /\ tracks \in PanPairs
    /\ output_path = None
    /\ audio_data = None
    /\ target_db = None
    /\ args = None
    /\ result = None
    /\ ServicesIdle

SpecPan == InitPan /\ [][Next]_vars

\* what track adds to a mix of output_length frames at max_sample_rate when
\* the equal-power gains are applied whatever its pan
PannedContribution(track, max_sample_rate, output_length) ==
    LET read == read_audio_file(fs, track.file_path)
        audio == ToStereo(Resampled([audio |-> read.data,
                                     sample_rate |-> read.sample_rate],
                                    max_sample_rate))
        panned == Buffer2([j \in 1..Len(audio.data) |->
                      <<RatMul(audio.data[j][1], PanLeft(track.pan)),
                        RatMul(audio.data[j][2], PanRight(track.pan))>>])
    IN  FitLength(Scale(panned, Rat(track.volume, 100)), output_length)

\* C24: a mix of a track with pan 0 and a track with another pan is the mix
\* in which the pan-0 track, too, is multiplied by the gains of the
\* equal-power law (cos(pi/4) left, sin(pi/4) right) instead of skipped.
C24_SkippedPanIsPanned ==
    Returned =>
        LET rate == result.value.sample_rate
            frames == Len(result.value.mixed_audio.data)
        IN  result.value.mixed_audio
              = normalize_audio(
                    AddInto(PannedContribution(tracks[1], rate, frames),
                            PannedContribution(tracks[2], rate, frames)),
                    DefaultTargetDb)

(***************************************************************************)
(* The order of the track descriptors.                                     *)
(***************************************************************************)
\* the filesystem with a second file that is no audio
OrderFS ==
    [p \in DOMAIN InitialFS \cup {"broken.wav"} |->
        IF p \in DOMAIN InitialFS THEN InitialFS[p] ELSE CorruptFile]

OrderTracks ==
    Lists([file_path : {"missing.wav", "corrupt.wav", "broken.wav",
                        "a.wav", "b.wav", "c.wav"},
           muted : BOOLEAN, solo : BOOLEAN, volume : Volumes, pan : Pans],
          MaxTracks)

InitOrder ==
    /\ pc = "idle"
    /\ op = "mix_tracks"
    /\ fs = OrderFS
    /\ tracks \in OrderTracks
    /\ output_path \in OutputPaths
    /\ audio_data = None
    /\ target_db = None
    /\ args = None
    /\ result = None
    /\ ServicesIdle

SpecOrder == InitOrder /\ [][Next]_vars

\* the lists that hold the descriptors of trks in another order
Reorderings(trks) ==
    {[i \in 1..Len(trks) |-> trks[f[i]]] : f \in Permutations(1..Len(trks))}

\* C25: every permutation of the track list makes mix_tracks return the
\* same buffer and sample rate, or raise the same error
C25_OrderIndependent ==
    Done => \A trks \in Reorderings(tracks) :
                mix_tracks(OrderFS, trks, output_path).value = result.value

(***************************************************************************)
(* The sink of mix_tracks.                                                 *)
(***************************************************************************)
\* the filesystem with a directory, which no file can be written over
SinkFS ==
    [p \in DOMAIN InitialFS \cup {"outdir"} |->
        IF p \in DOMAIN InitialFS THEN InitialFS[p] ELSE [kind |-> "directory"]]

InitSink ==
    /\ pc = "idle"
    /\ op = "mix_tracks"
    /\ fs = SinkFS
    /\ tracks \in Lists({t \in TrackDescriptors : ~t.solo}, MaxTracks)
    /\ output_path \in OutputPaths \cup {"outdir"}
    /\ audio_data = None
    /\ target_db = None
    /\ args = None
    /\ result = None
    /\ ServicesIdle

SpecSink == InitSink /\ [][Next]_vars

\* what mix_tracks returns when it returns: the buffer and its sample rate
IsMixResult(value) == DOMAIN value = {"mixed_audio", "sample_rate"}

\* C26: mix_tracks raises or returns a result, never both; a call that
\* returns with a sink path has written the sink once, with the normalized
\* buffer and the rate it returns; a call in which a step raises, the write
\* of the sink included, raises that error, and no earlier error lets the
\* sink be written
C26_RaisesOrReturnsWritten ==
    Done =>
        LET sink == [audio_data |-> result.value.mixed_audio,
                     file_path |-> output_path,
                     sample_rate |-> result.value.sample_rate]
            unsunk == mix_tracks(SinkFS, tracks, None).value
        IN  /\ IsExc(result.value) # IsMixResult(result.value)
            /\ IsMixResult(result.value) =>
                   /\ result.value = unsunk
                   /\ result.writes = IF output_path = None THEN <<>> ELSE <<sink>>
                   /\ output_path # None =>
                          fs = [p \in DOMAIN SinkFS \cup {output_path} |->
                                   IF p = output_path
                                   THEN AudioFile(sink.sample_rate, sink.audio_data)
                                   ELSE SinkFS[p]]
                   /\ output_path = None => fs = SinkFS
            /\ IsExc(result.value) => fs = SinkFS
            /\ IsExc(unsunk) => result.value = unsunk /\ result.writes = <<>>
            /\ (~IsExc(unsunk) /\ output_path # None
                    /\ Unwritable(SinkFS, output_path)) =>
                   /\ result.value = WriteError(output_path)
                   /\ Len(result.writes) = 1

C26_Witness ==
    /\ Done
    /\ output_path = "outdir"
    /\ result.value = WriteError("outdir")
    /\ Len(result.writes) = 1
    /\ result.reads = <<"a.wav", "b.wav">>

(***************************************************************************)
(* trim_silence and the frames above the threshold.                        *)
(***************************************************************************)
\* np.abs of the channel average of the buffer
AbsAudio(b) ==
    LET mono_audio == MonoAudio(b)
    IN  [j \in 1..Len(mono_audio) |-> RatAbs(mono_audio[j])] \o <<>>

\* C27: every frame whose channel-averaged absolute value exceeds the
\* threshold lies in the range [start_idx, end_idx) that trim_silence keeps,
\* for every min_silence_duration from 0 on
C27_LoudFramesKept ==
    TrimDone =>
        \A i \in LoudIndices(AbsAudio(audio_data), args.threshold) :
            result.start_idx <= i /\ i < result.end_idx

(***************************************************************************)
(* get_audio_processing_service, called from concurrent threads.  A thread *)
(* can be preempted between the test of the global, the construction that  *)
(* assigns it, and the read that returns it.                               *)
(***************************************************************************)
Threads == {"t1", "t2"}

\* the config argument, <<>> when the caller leaves it out: a dictionary,
\* as its set of items, that names the temp directory or is empty
Configs ==
    {<<>>, <<{}>>, <<{<<"temp_dir", "tmp1">>}>>, <<{<<"temp_dir", "tmp2">>}>>}

\* AudioProcessingService(config): self.config = config or {}
AudioProcessingService(config) ==
    [config |-> IF config = <<>> THEN {} ELSE config[1]]

InitSingleton ==
    /\ pc = "idle"
    /\ op = "get_audio_processing_service"
    /\ fs = InitialFS
    /\ tracks = <<>>
    /\ output_path = None
    /\ audio_data = None
    /\ target_db = None
    /\ args = None
    /\ result = None
    /\ _instance = NoObject
    /\ callers \in [Threads -> [pc : {"test"}, config : Configs,
                                 value : {NoObject}]]
    /\ constructed = <<>>
    /\ active_generations = <<>>
    /\ generating = None
    /\ projects_cache = <<>>
    /\ tracks_cache = <<>>

\* if _instance is None:
TestInstance(t) ==
    /\ callers[t].pc = "test"
    /\ callers' = [callers EXCEPT ![t].pc = IF _instance = NoObject
                                            THEN "construct" ELSE "return"]
    /\ UNCHANGED <<engine_vars, _instance, constructed, active_generations,
                   generating, projects_cache, tracks_cache>>

\* _instance = AudioProcessingService(config)
ConstructInstance(t) ==
    /\ callers[t].pc = "construct"
    /\ constructed' = Append(constructed,
                              AudioProcessingService(callers[t].config))
    /\ _instance' = Len(constructed) + 1
    /\ callers' = [callers EXCEPT ![t].pc = "return"]
    /\ UNCHANGED <<engine_vars, active_generations, generating,
                   projects_cache, tracks_cache>>

\* return _instance
ReturnInstance(t) ==
    /\ callers[t].pc = "return"
    /\ callers' = [callers EXCEPT ![t].pc = "done", ![t].value = _instance]
    /\ UNCHANGED <<engine_vars, _instance, constructed, active_generations,
                   generating, projects_cache, tracks_cache>>

NextSingleton ==
    \E t \in Threads :
        \/ TestInstance(t)
        \/ ConstructInstance(t)
        \/ ReturnInstance(t)

SpecSingleton == InitSingleton /\ [][NextSingleton]_vars

\* C28: when every concurrent caller has returned, one service has been
\* constructed, every caller holds it, and its config is that of the call
\* that constructed it
C28_OneInstance ==
    (\A t \in Threads : callers[t].pc = "done")
    => /\ Len(constructed) = 1
       /\ \A t \in Threads : callers[t].value = 1
       /\ \E t \in Threads :
              constructed[1] = AudioProcessingService(callers[t].config)

(***************************************************************************)
(* GenerationService.generate_music                                        *)
(* (src/backend/services/generation_service.py).  The conductor may raise; *)
(* a track generator catches what it raises and then returns None.  The    *)
(* reads of the clock are numbered; progress values are exact rationals.   *)
(***************************************************************************)
\* the truth value Python gives the error argument: None and "" are false
Truthy(error) == error # None /\ error # ""

\* a faulty variant: every status update stamps completed_at
SetsCompletedAtAlways(status) == TRUE

\* if status == "completed": the update stamps completed_at
SetsCompletedAt(status) == status = "completed"

\* self.active_generations after _update_generation_status(generation_id,
\* status, progress, error) at time now
UpdateGenerationStatus(generations, generation_id, status, progress, error, now) ==
    IF generation_id \in DOMAIN generations
    THEN LET updated == [generations[generation_id] EXCEPT
                            !.status = status, !.progress = progress,
                            !.updated_at = <<now>>]
             stamped == IF SetsCompletedAt(status)
                        THEN [updated EXCEPT !.completed_at = <<now>>]
                        ELSE updated
             failed == IF Truthy(error)
                       THEN [stamped EXCEPT !.error = error, !.status = "failed"]
                       ELSE stamped
         IN  [generations EXCEPT ![generation_id] = failed]
    ELSE generations

\* the entry generate_music stores before it starts
StartingEntry(params, now) ==
    [params |-> params, status |-> "starting", progress |-> Rat(0, 1),
     tracks |-> <<>>, started_at |-> <<now>>, updated_at |-> <<>>,
     completed_at |-> <<>>, error |-> None]

\* an entry a finished earlier call has left
CompletedEntry ==
    [StartingEntry([instruments |-> <<"drums">>, lyrics |-> ""], 1) EXCEPT
        !.status = "completed", !.progress = Rat(100, 1),
        !.updated_at = <<1>>, !.completed_at = <<1>>]

\* the instruments and lyrics of params; the other parameters only reach
\* the conductor
GenerationParams ==
    [instruments : Lists({"drums", "vocals"}, MaxTracks), lyrics : {"", "la"}]

\* the locals of a generate_music call and the log of its status updates
InitGeneration ==
    /\ pc = "idle"
    /\ op = "generate_music"
    /\ fs = InitialFS
    /\ tracks = <<>>
    /\ output_path = None
    /\ audio_data = None
    /\ target_db = None
    /\ args = None
    /\ result = None
    /\ _instance = NoObject
    /\ callers = <<>>
    /\ constructed = <<>>
    /\ \E earlier \in {{}, {"gen_0"}, {"gen_1"}} :
           active_generations = [g \in earlier |-> CompletedEntry]
    /\ \E params \in GenerationParams :
           generating = [pc |-> "call", params |-> params,
                         generation_id |-> "gen_1",
                         instruments |-> params.instruments,
                         current_progress |-> Rat(0, 1),
                         tracks_info |-> <<>>,
                         updates |-> <<>>,
                         raised |-> ""]
    /\ projects_cache = <<>>
    /\ tracks_cache = <<>>

\* the call's state after _update_generation_status(generation_id, status,
\* progress, error): the entry and the log of updates
Updated(state, status, progress, error) ==
    [generations |->
         UpdateGenerationStatus(state.generations, generating.generation_id,
                                status, progress, error,
                                Len(state.updates) + 2),
     updates |-> Append(state.updates, [status |-> status, progress |-> progress])]

StateNow == [generations |-> active_generations, updates |-> generating.updates]

\* except Exception as e: the update to "failed" with str(e), then raise
Raise(state, message) ==
    LET failed == Updated(state, "failed", Rat(0, 1), message)
    IN  /\ active_generations' = failed.generations
        /\ generating' = [generating EXCEPT !.pc = "raised",
                                            !.updates = failed.updates,
                                            !.raised = message]

\* lines 73-85: the entry is stored under the call's generation_id
GenerateMusicStart ==
    /\ generating.pc = "call"
    /\ active_generations' =
           [g \in DOMAIN active_generations \cup {generating.generation_id} |->
               IF g = generating.generation_id
               THEN StartingEntry(generating.params, 2)
               ELSE active_generations[g]]
    /\ generating' = [generating EXCEPT !.pc = "structure"]
    /\ UNCHANGED <<engine_vars, _instance, callers, constructed,
                   projects_cache, tracks_cache>>

\* lines 87-116: the conductor generates the structure, or raises
GenerateStructure ==
    /\ generating.pc = "structure"
    /\ LET begun == Updated(StateNow, "generating_structure", Rat(10, 1), None)
           ended == Updated(begun, "structure_complete", Rat(20, 1), None)
       IN  \/ /\ active_generations' = ended.generations
              /\ generating' = [generating EXCEPT !.pc = "guidelines",
                                                  !.updates = ended.updates]
           \/ Raise(begun, "unsupported operand type(s) for /: 'str' and 'int'")
    /\ UNCHANGED <<engine_vars, _instance, callers, constructed,
                   projects_cache, tracks_cache>>

\* track_progress_increment = 60 / len(instruments)
TrackProgressIncrement(instruments) == Rat(60, Len(instruments))

\* lines 118-125: the guidelines, or an exception of the conductor; the
\* division by the number of instruments
GenerateGuidelines ==
    /\ generating.pc = "guidelines"
    /\ \/ IF generating.instruments = <<>>
          THEN Raise(StateNow, "division by zero")
          ELSE /\ generating' = [generating EXCEPT !.pc = "tracks",
                                     !.current_progress = Rat(20, 1)]
               /\ UNCHANGED active_generations
       \/ /\ generating.instruments # <<>>
          /\ Raise(StateNow, "unhashable type: 'list'")
    /\ UNCHANGED <<engine_vars, _instance, callers, constructed,
                   projects_cache, tracks_cache>>

RatMin(a, b) == IF RatLess(b, a) THEN b ELSE a

\* what _generate_instrument_track or _generate_vocal_track returns: the
\* track's info, or None (here <<>>) when the model fails or raises
TrackInfos(generation_id, instrument_type, lyrics) ==
    {<<>>, <<[id |-> generation_id \o "_" \o instrument_type,
              is_vocal |-> instrument_type = "vocals" /\ lyrics # ""]>>}

\* lines 128-156: one pass of the loop over the instruments
GenerateTrack ==
    /\ generating.pc = "tracks"
    /\ generating.instruments # <<>>
    /\ LET instrument_type == Head(generating.instruments)
           current_progress ==
               RatAdd(generating.current_progress,
                      TrackProgressIncrement(generating.params.instruments))
           begun == Updated(StateNow, "generating_" \o instrument_type,
                            generating.current_progress, None)
           ended == Updated(begun, "completed_" \o instrument_type,
                            RatMin(Rat(80, 1), current_progress), None)
       IN  /\ active_generations' = ended.generations
           /\ \E track_info \in TrackInfos(generating.generation_id,
                                          instrument_type,
                                          generating.params.lyrics) :
                  generating' =
                      [generating EXCEPT
                          !.instruments = Tail(generating.instruments),
                          !.current_progress = current_progress,
                          !.tracks_info =
                              IF track_info = <<>> THEN @
                              ELSE Append(@, track_info[1]),
                          !.updates = ended.updates]
    /\ UNCHANGED <<engine_vars, _instance, callers, constructed,
                   projects_cache, tracks_cache>>

\* lines 158-180: the last two updates and the return
GenerateMusicReturn ==
    /\ generating.pc = "tracks"
    /\ generating.instruments = <<>>
    /\ LET finalizing == Updated(StateNow, "finalizing", Rat(90, 1), None)
           completed == Updated(finalizing, "completed", Rat(100, 1), None)
       IN  /\ active_generations' = completed.generations
           /\ generating' = [generating EXCEPT !.pc = "returned",
                                               !.updates = completed.updates]
    /\ UNCHANGED <<engine_vars, _instance, callers, constructed,
                   projects_cache, tracks_cache>>

NextGeneration ==
    \/ GenerateMusicStart
    \/ GenerateStructure
    \/ GenerateGuidelines
    \/ GenerateTrack
    \/ GenerateMusicReturn

SpecGeneration == InitGeneration /\ [][NextGeneration]_vars

\* the entry of the call under way
Entry == active_generations[generating.generation_id]

\* the progress recorded by the call's updates never decreases
ProgressNeverDecreases ==
    \A i \in 1..(Len(generating.updates) - 1) :
        ~RatLess(generating.updates[i + 1].progress,
                 generating.updates[i].progress)

\* C29: a generate_music call that has returned has left its entry
\* completed, at progress 100 with completed_at set, and its recorded
\* progress never decreased; a call that has raised has left it failed, with
\* the error's message and completed_at unset; until then the entry is in
\* neither terminal state
C29_TerminalState ==
    /\ generating.pc = "returned" =>
           /\ Entry.status = "completed"
           /\ Entry.progress = Rat(100, 1)
           /\ Entry.completed_at # <<>>
           /\ Entry.error = None
           /\ ProgressNeverDecreases
    /\ generating.pc = "raised" =>
           /\ Entry.status = "failed"
           /\ Entry.error = generating.raised
           /\ Entry.completed_at = <<>>
    /\ generating.pc \in {"structure", "guidelines", "tracks"} =>
           Entry.status \notin {"completed", "failed"}

\* a call for drums and vocals has returned after eight status updates, the
\* drums track missing from its result
C29_Witness ==
    /\ generating.pc = "returned"
    /\ generating.params.instruments = <<"drums", "vocals">>
    /\ Len(generating.updates) = 8
    /\ Len(generating.tracks_info) = 1
    /\ generating.updates[4].progress = Rat(50, 1)
    /\ Entry.status = "completed"

(***************************************************************************)
(* ProjectService (src/backend/services/project_service.py): the two       *)
(* caches.  A dictionary is a function from its keys; uuid4() gives an id  *)
(* no cache holds; a write or a removal on disk may raise OSError.  The    *)
(* timestamps and the other defaults of a project or track are left out.   *)
(***************************************************************************)
ProjectIds == {"p1", "p2"}

TrackIds == {"t1", "t2"}

Names == {"b"}

\* the dictionaries that give some of the keys of schema a value of theirs
Dicts(schema) ==
    UNION {{d \in [keys -> UNION {schema[k] : k \in keys}] :
               \A k \in keys : d[k] \in schema[k]} :
           keys \in SUBSET DOMAIN schema}

\* dictionary.get(key, default)
Get(dictionary, key, default) ==
    IF key \in DOMAIN dictionary THEN dictionary[key] ELSE default

\* cache[key] = value
Store(cache, key, value) ==
    [k \in DOMAIN cache \cup {key} |-> IF k = key THEN value ELSE cache[k]]

\* del cache[key] for each key of keys
Remove(cache, keys) == [k \in DOMAIN cache \ keys |-> cache[k]]

\* the fields update_project leaves alone
ProtectedProjectFields == {"id", "created_at"}

\* a faulty variant: project_id is not among the protected fields
ProtectedTrackFieldsNoProject == {"id", "created_at"}

\* the fields update_track leaves alone
ProtectedTrackFields == {"id", "project_id", "created_at"}

\* for key, value in updates.items(): if key not in protected: d[key] = value
ApplyUpdates(dictionary, updates, protected) ==
    LET keys == DOMAIN updates \ protected
    IN  [k \in DOMAIN dictionary \cup keys |->
            IF k \in keys THEN updates[k] ELSE dictionary[k]]

StorageError == Exc("OSError", "No space left on device")

InitProjects ==
    /\ pc = "idle"
    /\ op = "ProjectService"
    /\ fs = InitialFS
    /\ tracks = <<>>
    /\ output_path = None
    /\ audio_data = None
    /\ target_db = None
    /\ args = None
    /\ result = None
    /\ _instance = NoObject
    /\ callers = <<>>
    /\ constructed = <<>>
    /\ active_generations = <<>>
    /\ generating = None
    /\ projects_cache = <<>>
    /\ tracks_cache = <<>>

\* the call returns value
Returns(name, arguments, value) ==
    /\ op' = name
    /\ args' = arguments
    /\ result' = [raised |-> FALSE, value |-> value]
    /\ pc' = "done"

\* the call raises the storage's error
Raises(name, arguments) ==
    /\ op' = name
    /\ args' = arguments
    /\ result' = [raised |-> TRUE, value |-> StorageError]
    /\ pc' = "done"

create_project ==
    \E project_data \in Dicts([id |-> ProjectIds, name |-> Names]),
       uuid \in ProjectIds \ DOMAIN projects_cache, saved \in BOOLEAN :
        LET project == [id |-> Get(project_data, "id", uuid),
                        name |-> Get(project_data, "name", "Untitled Project")]
        IN  /\ IF saved
               THEN /\ projects_cache' = Store(projects_cache, project.id, project)
                    /\ Returns("create_project", [project_data |-> project_data],
                               <<project>>)
               ELSE /\ UNCHANGED projects_cache
                    /\ Raises("create_project", [project_data |-> project_data])
            /\ UNCHANGED <<fs, tracks, output_path, audio_data, target_db,
                           _instance, callers, constructed, active_generations,
                           generating, tracks_cache>>

update_project ==
    \E project_id \in ProjectIds,
       updates \in Dicts([id |-> ProjectIds, name |-> Names]),
       saved \in BOOLEAN :
        LET arguments == [project_id |-> project_id, updates |-> updates]
        IN  /\ IF project_id \notin DOMAIN projects_cache
               THEN /\ UNCHANGED projects_cache
                    /\ Returns("update_project", arguments, <<>>)
               ELSE LET project == ApplyUpdates(projects_cache[project_id],
                                                updates, ProtectedProjectFields)
                    IN  /\ projects_cache' =
                               Store(projects_cache, project_id, project)
                        /\ IF saved
                           THEN Returns("update_project", arguments, <<project>>)
                           ELSE Raises("update_project", arguments)
            /\ UNCHANGED <<fs, tracks, output_path, audio_data, target_db,
                           _instance, callers, constructed, active_generations,
                           generating, tracks_cache>>

\* the ids of the cached tracks of the project
TracksToRemove(cache, project_id) ==
    {track_id \in DOMAIN cache : Get(cache[track_id], "project_id", None) = project_id}

delete_project ==
    \E project_id \in ProjectIds, removed \in BOOLEAN :
        LET arguments == [project_id |-> project_id]
        IN  /\ IF project_id \notin DOMAIN projects_cache
               THEN /\ UNCHANGED <<projects_cache, tracks_cache>>
                    /\ Returns("delete_project", arguments, <<FALSE>>)
               ELSE IF ~removed
               THEN /\ UNCHANGED <<projects_cache, tracks_cache>>
                    /\ Raises("delete_project", arguments)
               ELSE /\ tracks_cache' =
                           Remove(tracks_cache,
                                  TracksToRemove(tracks_cache, project_id))
                    /\ projects_cache' = Remove(projects_cache, {project_id})
                    /\ Returns("delete_project", arguments, <<TRUE>>)
            /\ UNCHANGED <<fs, tracks, output_path, audio_data, target_db,
                           _instance, callers, constructed, active_generations,
                           generating>>

create_track ==
    \E project_id \in ProjectIds,
       track_data \in Dicts([id |-> TrackIds, name |-> Names,
                             project_id |-> {"p0"}]),
       uuid \in TrackIds \ DOMAIN tracks_cache, saved \in BOOLEAN :
        LET arguments == [project_id |-> project_id, track_data |-> track_data]
            track == [id |-> Get(track_data, "id", uuid),
                      project_id |-> project_id,
                      name |-> Get(track_data, "name", "New Track")]
        IN  /\ IF project_id \notin DOMAIN projects_cache
               THEN /\ UNCHANGED tracks_cache
                    /\ Returns("create_track", arguments, <<>>)
               ELSE IF saved
               THEN /\ tracks_cache' = Store(tracks_cache, track.id, track)
                    /\ Returns("create_track", arguments, <<track>>)
               ELSE /\ UNCHANGED tracks_cache
                    /\ Raises("create_track", arguments)
            /\ UNCHANGED <<fs, tracks, output_path, audio_data, target_db,
                           _instance, callers, constructed, active_generations,
                           generating, projects_cache>>

update_track ==
    \E track_id \in TrackIds,
       updates \in Dicts([id |-> TrackIds, name |-> Names,
                          project_id |-> ProjectIds \cup {"p0"}]),
       saved \in BOOLEAN :
        LET arguments == [track_id |-> track_id, updates |-> updates]
        IN  /\ IF track_id \notin DOMAIN tracks_cache
               THEN /\ UNCHANGED tracks_cache
                    /\ Returns("update_track", arguments, <<>>)
               ELSE LET track == ApplyUpdates(tracks_cache[track_id], updates,
                                              ProtectedTrackFields)
                    IN  /\ tracks_cache' = Store(tracks_cache, track_id, track)
                        /\ IF saved
                           THEN Returns("update_track", arguments, <<track>>)
                           ELSE Raises("update_track", arguments)
            /\ UNCHANGED <<fs, tracks, output_path, audio_data, target_db,
                           _instance, callers, constructed, active_generations,
                           generating, projects_cache>>

delete_track ==
    \E track_id \in TrackIds, removed \in BOOLEAN :
        LET arguments == [track_id |-> track_id]
        IN  /\ IF track_id \notin DOMAIN tracks_cache
               THEN /\ UNCHANGED tracks_cache
                    /\ Returns("delete_track", arguments, <<FALSE>>)
               ELSE IF ~removed
               THEN /\ UNCHANGED tracks_cache
                    /\ Raises("delete_track", arguments)
               ELSE /\ tracks_cache' = Remove(tracks_cache, {track_id})
                    /\ Returns("delete_track", arguments, <<TRUE>>)
            /\ UNCHANGED <<fs, tracks, output_path, audio_data, target_db,
                           _instance, callers, constructed, active_generations,
                           generating, projects_cache>>

NextProjects ==
    \/ create_project
    \/ update_project
    \/ delete_project
    \/ create_track
    \/ update_track
    \/ delete_track

SpecProjects == InitProjects /\ [][NextProjects]_vars

\* every cached track belongs to a cached project, and a project just
\* deleted has no cached track
TracksHaveProjects ==
    /\ \A track_id \in DOMAIN tracks_cache :
           tracks_cache[track_id].project_id \in DOMAIN projects_cache
    /\ (op = "delete_project" /\ result = [raised |-> FALSE, value |-> <<TRUE>>])
       => /\ args.project_id \notin DOMAIN projects_cache
          /\ \A track_id \in DOMAIN tracks_cache :
                 tracks_cache[track_id].project_id # args.project_id

\* update_track keeps every cached track, its id and its project_id
UpdateTrackKeepsIds ==
    op' = "update_track"
    => \A track_id \in DOMAIN tracks_cache :
           /\ track_id \in DOMAIN tracks_cache'
           /\ tracks_cache'[track_id].id = tracks_cache[track_id].id
           /\ tracks_cache'[track_id].project_id = tracks_cache[track_id].project_id

\* C30: after any sequence of the six operations every cached track has the
\* project_id of a cached project, delete_project(p) leaves no cached track
\* of p, and update_track changes no track's id or project_id
C30_CachedTracksHaveProjects ==
    []TracksHaveProjects /\ [][UpdateTrackKeepsIds]_vars

\* update_track was given another id, project and name for track t1 of
\* project p1, and has changed the name only
C30_Witness ==
    /\ op = "update_track"
    /\ args = [track_id |-> "t1",
               updates |-> [id |-> "t2", project_id |-> "p2", name |-> "b"]]
    /\ ~result.raised
    /\ result.value = <<[id |-> "t1", project_id |-> "p1", name |-> "b"]>>
    /\ tracks_cache["t1"] = result.value[1]
    /\ DOMAIN projects_cache = {"p1", "p2"}

====
